---------------------------- MODULE Spec2Model ----------------------------
(***************************************************************************)
(* Verification model of the procedural-simulation repository              *)
(* (src/public/scipts/simulation/{simulation,animals,utils}.js).           *)
(*                                                                         *)
(* Numbers.  The program computes in IEEE doubles; the model computes in   *)
(* fixed point: lengths and coordinates are integers (one unit = one       *)
(* pixel), angles are integer degrees held on the 15-degree grid           *)
(* AngleGrid, Math.cos / Math.sin are look-ups in CosTable (thousandths)   *)
(* and Math.atan2 returns the grid direction nearest to the vector.        *)
(*                                                                         *)
(* The module holds one specification per subsystem; the variables of the  *)
(* other subsystems keep their initial value in each of them:              *)
(*   SpecRipples  RipplesManager and its removal timers                    *)
(*   SpecBody     one BodyBase or one Lizard with its four legs:           *)
(*                construction, update, setCustomBodyShape, the scale      *)
(*                setter                                                   *)
(*   SpecLeg      one Leg3Joint on a link that is moved and turned         *)
(*                between its updates                                      *)
(*   SpecSim      a Simulation of two boids carrying Fish or Lizards:      *)
(*                update, addPoint, setMousePos, setBounds, and the        *)
(*                removal timers of its RipplesManager                     *)
(*   SpecResize   the same Simulation under ticks, ripples and the         *)
(*                setBounds(width, height) of SimulationWrapper.resize     *)
(*   SpecFlock    the population of a Simulation: the constructor's        *)
(*                addAnimal loop, updateBoidAmount, replaceAnimalType      *)
(*   SpecPixi     the population calls interleaved with the completion of  *)
(*                SimulationWrapper.initPixi                               *)
(*   SpecGeom     getIntercectionPoint called on two circles               *)
(*                                                                         *)
(* Where the value of one call is read several times, the call is made     *)
(* once: CHOOSE r \in {F(v) : v \in {call}} : TRUE is F(call).             *)
(***************************************************************************)
EXTENDS Integers, Sequences, FiniteSets, TLC

VARIABLES
  now,        \* wall clock (Date.now / the timer clock), in ticks
  points,     \* RipplesManager.points: sequence of {id, pos, creationTime, delay}
  timers,     \* pending setTimeout callbacks of addPoint: set of {id, due}
  nextId,     \* identity of the next arrInstance object
  accepted,   \* history: the ripples addPoint has stored, as {id, T, D}
  removed,    \* history: ids whose removal callback has run
  lastQuery,  \* the most recent getPoints() call: {time, ids, result}
  rippleOp,   \* the RipplesManager operation performed last
  addStored,  \* whether the last addPoint call stored its point
  body,       \* an animal's BodyBase fields: chainLinks, spacing, maxAngle,
              \* totalCurvature, headPoints, tailPoints, scale (_scale)
  legs,       \* its legs: the four Leg3Joint of a Lizard, none otherwise
  bodyOp,     \* the BodyBase operation performed last
  bodyArg,    \* its arguments: the position given to update, the scale supplied,
              \* and where the last update found the first two links; for a
              \* single leg, the leg as its last update found it
  bodyOps,    \* number of BodyBase operations performed
  flock,      \* Simulation.flock: sequence of boids {position, velocity,
              \* acceleration, animal}, with afterEdges (the position
              \* edges() left) and ripplesSeen (the points applyForce was
              \* called with) of its last tick
  boundaries, \* Simulation.boundaries: {width, height, left, top, margin}
  mousePos,   \* Simulation.mousePos
  simOp,      \* the Simulation operation performed last
  simArg,     \* its argument: the deltaTime given to update, the
              \* <<newWidth, newHeight, newMargin>> given to setBounds
  simOps,     \* number of calls made on the Simulation
  animalType, \* Simulation.animalType
  pixiInitialised, \* whether the continuation of SimulationWrapper.initPixi
              \* has run
  graphicContainers, \* Simulation.graphicContainers: the animal whose
              \* container each entry is
  created,    \* number of animals addAnimal has created; an animal's id is
              \* its rank among them
  destroyed,  \* the animals destroy() was called on, in call order
  circles,    \* the arguments <<p1, p2, r1, r2>> of the last
              \* getIntercectionPoint call
  intersections \* the list it returned

ripplesVars ==
  <<now, points, timers, nextId, accepted, removed, lastQuery, rippleOp, addStored>>

bodyVars == <<body, legs, bodyOp, bodyArg, bodyOps>>

\* the population of the Simulation
popVars == <<animalType, graphicContainers, created, destroyed, pixiInitialised>>

simVars == <<flock, boundaries, mousePos, simOp, simArg, simOps, popVars>>

geomVars == <<circles, intersections>>

vars == <<ripplesVars, bodyVars, simVars, geomVars>>

notRipplesVars == <<bodyVars, simVars, geomVars>>
notBodyVars == <<ripplesVars, simVars, geomVars>>
\* what neither the Simulation nor its RipplesManager holds
notSimVars == <<bodyVars, geomVars>>
notGeomVars == <<ripplesVars, bodyVars, simVars>>

-----------------------------------------------------------------------------
(* Bounds of the model *)

MaxRipples == 2      \* RipplesManager.maxRipples used by the model
MaxTime == 4         \* the clock stops here
MaxAdds == 3         \* number of ripples ever accepted

(* Program constants scaled to the model's clock *)
RippleDelay == 2     \* RipplesManager.delay

RipplePositions == {<<0, 0>>, <<5, 5>>}

-----------------------------------------------------------------------------
(* Fixed-point arithmetic standing for the doubles of the program *)

Abs(n) == IF n < 0 THEN -n ELSE n
Min(a, b) == IF a <= b THEN a ELSE b
Max(a, b) == IF a >= b THEN a ELSE b

\* a / b rounded to the nearest integer, halves away from zero (b > 0)
RoundDiv(a, b) ==
  IF a >= 0 THEN (2 * a + b) \div (2 * b) ELSE -((2 * (-a) + b) \div (2 * b))

\* the directions the model distinguishes, in degrees, as Math.atan2 ranges
\* over (-pi, pi]
AngleGrid == {15 * k : k \in -11..12}

\* 1000 * cos of 0, 15, ..., 90 degrees
CosTable == <<1000, 966, 866, 707, 500, 259, 0>>

\* 1000 * Math.cos(a), a in degrees on the grid (any multiple of 15)
cosd(a) ==
  LET m == a % 360
  IN  IF m <= 90 THEN CosTable[(m \div 15) + 1]
      ELSE IF m <= 180 THEN -CosTable[((180 - m) \div 15) + 1]
      ELSE IF m <= 270 THEN -CosTable[((m - 180) \div 15) + 1]
      ELSE CosTable[((360 - m) \div 15) + 1]

\* 1000 * Math.sin(a)
sind(a) == cosd(a - 90)

\* new Vector2D(x, y)
Vector2D(x, y) == [x |-> x, y |-> y]

\* Vector2D.sub(vec1, vec2)
sub(vec1, vec2) == [x |-> vec1.x - vec2.x, y |-> vec1.y - vec2.y]

\* Vector2D.addPolar(vec, radius, angle)
addPolar(vec, radius, a) ==
  [x |-> vec.x + RoundDiv(radius * cosd(a), 1000),
   y |-> vec.y + RoundDiv(radius * sind(a), 1000)]

\* 1000 * |vec| * cos(angle between vec and direction a)
Along(vec, a) == vec.x * cosd(a) + vec.y * sind(a)

\* get angle(): Math.atan2(this.y, this.x) in degrees, the grid direction
\* nearest to vec, looked for among the directions of vec's quadrant;
\* Math.atan2(0, 0) is 0
angle(vec) ==
  IF vec.x = 0 /\ vec.y = 0 THEN 0
  ELSE LET quadrant == {a \in AngleGrid :
                          /\ vec.x * cosd(a) >= 0
                          /\ vec.y * sind(a) >= 0}
       IN  CHOOSE a \in quadrant :
             \A b \in quadrant :
               \/ Along(vec, a) > Along(vec, b)
               \/ (Along(vec, a) = Along(vec, b) /\ a <= b)

\* squared Euclidean distance: distanceSquared(vec)
distanceSquared(v, w) == (v.x - w.x) * (v.x - w.x) + (v.y - w.y) * (v.y - w.y)

-----------------------------------------------------------------------------
(* RipplesManager (simulation.js) *)

RipplesStart ==
  /\ now = 0
  /\ points = << >>
  /\ timers = {}
  /\ nextId = 1
  /\ accepted = {}
  /\ removed = {}
  /\ lastQuery = [time |-> 0, ids |-> {}, result |-> << >>]
  /\ rippleOp = "new"
  /\ addStored = FALSE

\* mutant of RipplesFull: the capacity test lets one more point in
RipplesFullOffByOne(pts) == Len(pts) > MaxRipples

\* addPoint's guard: if (this.points.length >= this.maxRipples) return;
RipplesFull(pts) == Len(pts) >= MaxRipples

\* addPoint(point): store {pos, creationTime, delay} and schedule its removal
addPointCall(p) ==
  /\ nextId <= MaxAdds
  /\ rippleOp' = "addPoint"
  /\ IF RipplesFull(points)
       THEN /\ addStored' = FALSE
            /\ UNCHANGED <<points, timers, nextId, accepted>>
       ELSE /\ addStored' = TRUE
            /\ points' = Append(points, [id |-> nextId, pos |-> p,
                                         creationTime |-> now, delay |-> RippleDelay])
            /\ timers' = timers \cup {[id |-> nextId, due |-> now + RippleDelay]}
            /\ accepted' = accepted \cup {[id |-> nextId, T |-> now, D |-> RippleDelay]}
            /\ nextId' = nextId + 1
  /\ UNCHANGED <<now, removed, lastQuery>>

RipplesManager_addPoint(p) == addPointCall(p) /\ UNCHANGED notRipplesVars

\* Array.prototype.indexOf on this.points, by object identity; 0 when absent
IndexOfPoint(pts, id) ==
  IF \E i \in 1..Len(pts) : pts[i].id = id
    THEN CHOOSE i \in 1..Len(pts) : pts[i].id = id
    ELSE 0

\* Array.prototype.splice(index, 1)
Splice(s, i) == [k \in 1..(Len(s) - 1) |-> IF k < i THEN s[k] ELSE s[k + 1]]

\* removePoint(arrInstance)
removePoint(pts, id) ==
  IF IndexOfPoint(pts, id) > 0 THEN Splice(pts, IndexOfPoint(pts, id)) ELSE pts

\* mutant of TimerDue: the callback may run before the delay has elapsed
TimerDueEarly(t) == TRUE

\* setTimeout(cb, delay): the callback runs no earlier than delay after the
\* call; how much later is up to the event loop
TimerDue(t) == now >= t.due

\* the setTimeout callback of addPoint: this.removePoint(arrInstance)
TimerFire ==
  \E t \in timers :
    /\ TimerDue(t)
    /\ points' = removePoint(points, t.id)
    /\ timers' = timers \ {t}
    /\ removed' = removed \cup {t.id}
    /\ rippleOp' = "removePoint"
    /\ UNCHANGED <<now, nextId, accepted, lastQuery, addStored>>
    /\ UNCHANGED notRipplesVars

\* getPoints(): this.points.map((point) => point.pos)
getPoints(pts) == [i \in 1..Len(pts) |-> pts[i].pos]

\* a call of getPoints(), by whoever makes it
getPointsCall ==
  /\ lastQuery' = [time |-> now,
                   ids |-> {points[i].id : i \in 1..Len(points)},
                   result |-> getPoints(points)]
  /\ rippleOp' = "getPoints"
  /\ UNCHANGED <<now, points, timers, nextId, accepted, removed, addStored>>

RipplesManager_getPoints ==
  /\ getPointsCall
  /\ UNCHANGED notRipplesVars

\* time passes
ClockTick ==
  /\ now < MaxTime
  /\ now' = now + 1
  /\ rippleOp' = "tick"
  /\ UNCHANGED <<points, timers, nextId, accepted, removed, lastQuery, addStored>>
  /\ UNCHANGED notRipplesVars

RipplesNext ==
  \/ \E p \in RipplePositions : RipplesManager_addPoint(p)
  \/ TimerFire
  \/ RipplesManager_getPoints
  \/ ClockTick
-----------------------------------------------------------------------------
(* ChainLink and BodyBase (animals.js).  The style, eye and drawing fields   *)
(* of BodyBase take no part in the spine and are left out.                   *)

\* totalCurvature is a double: a number (held in thousandths) or NaN
Num(v) == [nan |-> FALSE, val |-> v]
NaN == [nan |-> TRUE, val |-> 0]

\* new ChainLink(radius, pos): directionAngle = -Math.PI / 2
ChainLink(radius, pos) == [radius |-> radius, pos |-> pos, directionAngle |-> -90]

\* mutant of clampAngleDiff: the link is kept inside the cone instead of outside
clampAngleDiffInside(angleDiff, maxAngle) ==
  IF angleDiff < 0
    THEN Max(angleDiff, -(180 - maxAngle))
    ELSE Min(angleDiff, 180 - maxAngle)

\* ChainLink.update, the clamp: maxAngleRad = (180 - maxAngle) degrees and
\* angleDiff < 0 ? Math.min(angleDiff, -maxAngleRad) : Math.max(angleDiff, maxAngleRad)
clampAngleDiff(angleDiff, maxAngle) ==
  IF angleDiff < 0
    THEN Min(angleDiff, -(180 - maxAngle))
    ELSE Max(angleDiff, 180 - maxAngle)

\* ChainLink.update, the wrap of angleDiff into (-pi, pi]
wrapAngleDiff(angleDiff) ==
  IF angleDiff > 180 THEN angleDiff - 360
  ELSE IF angleDiff <= -180 THEN angleDiff + 360
  ELSE angleDiff

\* ChainLink.update(distConstrainer, distance, angleConstrainer, maxAngle):
\* the link after the call
ChainLink_update(link, distConstrainer, distance, angleConstrainer, maxAngle) ==
  LET anchorAngle == angle(sub(angleConstrainer.pos, distConstrainer.pos))
      currentAngle == angle(sub(link.pos, distConstrainer.pos))
      angleDiff == wrapAngleDiff(currentAngle - anchorAngle)
      newAngle == clampAngleDiff(angleDiff, maxAngle) + anchorAngle
  IN  [radius |-> link.radius,
       pos |-> addPolar(distConstrainer.pos, distance, newAngle),
       directionAngle |-> currentAngle]

\* BodyBase.getTotalCurvature, one term of the sum: the difference of two
\* direction angles in degrees, wrapped
curvatureDifference(link1, link2) ==
  LET difference == link2.directionAngle - link1.directionAngle
      d1 == IF difference > 180 THEN difference - 360 ELSE difference
  IN  IF d1 < -180 THEN d1 + 360 ELSE d1

RECURSIVE curvatureSum(_, _)
\* the loop of getTotalCurvature from index i (the model counts links from 1)
curvatureSum(links, i) ==
  IF i > Len(links) THEN 0
  ELSE curvatureDifference(links[i - 1], links[i]) + curvatureSum(links, i + 1)

\* Math.min(Math.max(curCurvature / maxCurvature, -1), 1): 0/0 is NaN and
\* Math.max, Math.min return NaN for it; x/0 is +-Infinity
getTotalCurvature(links, maxAngle) ==
  LET maxCurvature == maxAngle * (Len(links) - 2)
      curCurvature == curvatureSum(links, 3)
  IN  IF maxCurvature = 0
        THEN IF curCurvature = 0 THEN NaN
             ELSE IF curCurvature > 0 THEN Num(1000) ELSE Num(-1000)
        ELSE LET q == IF maxCurvature > 0
                        THEN RoundDiv(curCurvature * 1000, maxCurvature)
                        ELSE RoundDiv(-curCurvature * 1000, -maxCurvature)
             IN  Num(Min(Max(q, -1000), 1000))

RECURSIVE updateTail(_, _, _, _)
\* the for loop of BodyBase.update from index i on
updateTail(links, i, distance, maxAngle) ==
  IF i > Len(links) THEN links
  ELSE updateTail(
         [links EXCEPT ![i] =
            ChainLink_update(links[i], links[i - 1], distance, links[i - 2], maxAngle)],
         i + 1, distance, maxAngle)

\* BodyBase.update taking the direction from the head link's position before
\* the call instead of from pos
BodyBase_updateFromOldHead(b, pos) ==
  LET currentAngle == angle(sub(b.chainLinks[2].pos, b.chainLinks[1].pos))
      link1 == [b.chainLinks[1] EXCEPT !.pos = pos, !.directionAngle = currentAngle]
      link2 == [b.chainLinks[2] EXCEPT
                  !.pos = addPolar(pos, b.spacing * b.scale, currentAngle),
                  !.directionAngle = currentAngle]
      links == updateTail([b.chainLinks EXCEPT ![1] = link1, ![2] = link2],
                          3, b.spacing * b.scale, b.maxAngle)
  IN  [b EXCEPT !.chainLinks = links,
                !.totalCurvature = getTotalCurvature(links, b.maxAngle)]

\* BodyBase.update(pos) on a body of at least two links: the body after the call
BodyBase_update(b, pos) ==
  LET currentAngle == angle(sub(b.chainLinks[2].pos, pos))
      link1 == [b.chainLinks[1] EXCEPT !.pos = pos, !.directionAngle = currentAngle]
      link2 == [b.chainLinks[2] EXCEPT
                  !.pos = addPolar(pos, b.spacing * b.scale, currentAngle),
                  !.directionAngle = currentAngle]
      links == updateTail([b.chainLinks EXCEPT ![1] = link1, ![2] = link2],
                          3, b.spacing * b.scale, b.maxAngle)
  IN  [b EXCEPT !.chainLinks = links,
                !.totalCurvature = getTotalCurvature(links, b.maxAngle)]

\* the links setCustomBodyShape builds: radiusesArray.map(...) down the y axis
\* from currentPos, spacing apart (not scaled)
shapeLinks(radiusesArray, spacing, currentPos) ==
  [i \in 1..Len(radiusesArray) |->
     ChainLink(radiusesArray[i],
               Vector2D(currentPos.x, currentPos.y + spacing * (i - 1)))]

\* BodyBase.setCustomBodyShape on a body that has chainLinks[0]
setCustomBodyShape(b, radiusesArray, spacing, maxAngle, headPoints, tailPoints) ==
  [b EXCEPT !.chainLinks = shapeLinks(radiusesArray, spacing, b.chainLinks[1].pos),
            !.spacing = spacing,
            !.maxAngle = maxAngle,
            !.headPoints = Max(2, headPoints),
            !.tailPoints = Max(2, tailPoints)]

\* the constructor's padding of radiusesArray
padRadiuses(radiusesArray) ==
  IF Len(radiusesArray) = 0 THEN <<10, 10>>
  ELSE IF Len(radiusesArray) = 1 THEN <<radiusesArray[1], radiusesArray[1]>>
  ELSE radiusesArray

\* a scale argument: a number, or left out (undefined)
Given(value) == [omitted |-> FALSE, value |-> value]
Omitted == [omitted |-> TRUE, value |-> 0]

\* the default parameter `scale = 1` of the constructors of BodyBase and
\* Leg3Joint: an omitted (undefined) argument is replaced by 1
defaultScale(scale) == IF scale.omitted THEN 1 ELSE scale.value

\* mutant of absScale: the sign of the scale is kept
absScaleKeepsSign(scale) == scale

\* Math.abs(scale) of the constructors and the scale setters
absScale(scale) == Abs(scale)

\* new BodyBase(radiusesArray, spacing, maxAngle, basisPosition, headPoints,
\* tailPoints, ..., scale)
BodyBase(radiusesArray, spacing, maxAngle, basisPosition, headPoints, tailPoints, scale) ==
  [chainLinks |-> shapeLinks(padRadiuses(radiusesArray), spacing, basisPosition),
   spacing |-> spacing,
   maxAngle |-> maxAngle,
   totalCurvature |-> Num(0),
   headPoints |-> Max(2, headPoints),
   tailPoints |-> Max(2, tailPoints),
   scale |-> absScale(defaultScale(scale))]

-----------------------------------------------------------------------------
(* Leg3Joint (animals.js).  joints[0], joints[1], joints[2] of the program   *)
(* are joints[1] (shoulder), joints[2] (knee), joints[3] (foot) here.  A leg *)
(* holds its ChainLink by reference: the field link is that object's state   *)
(* and attached tells whether the object is still chainLinks[linkIndex].     *)
(* Distances are compared exactly, on their squares; a square root is taken  *)
(* only for the fraction of the way the foot moves, held in hundredths.      *)

Sq(n) == n * n

RECURSIVE sqrtSearch(_, _, _)
\* the largest r in lo..hi with r * r <= n
sqrtSearch(n, lo, hi) ==
  IF lo >= hi THEN lo
  ELSE LET mid == (lo + hi + 1) \div 2
       IN  IF mid * mid <= n THEN sqrtSearch(n, mid, hi)
           ELSE sqrtSearch(n, lo, mid - 1)

\* Math.sqrt(n), rounded down
sqrt(n) == sqrtSearch(n, 0, Min(n, 46340))

\* getIntercectionPoint with >= and <= in its test: tangent circles get the
\* empty list
getIntercectionPointStrict(p1, p2, r1, r2) ==
  LET dx == p2.x - p1.x
      dy == p2.y - p1.y
      D == dx * dx + dy * dy
  IN  IF D >= Sq(r1 + r2) \/ D <= Sq(r1 - r2) THEN << >>
      ELSE << [nan |-> FALSE, pos |-> p1], [nan |-> FALSE, pos |-> p2] >>

\* getIntercectionPoint(p1, p2, r1, r2): the list of intersection points.
\* With D = d * d the code's a / d is (r1^2 - r2^2 + D) / (2 D) and its
\* h / d is sqrt(4 D r1^2 - (r1^2 - r2^2 + D)^2) / (2 D).  For d = 0 (and
\* r1 = r2, or the first test had returned) both are 0 / 0: the two points
\* are NaN, which nan records.
getIntercectionPoint(p1, p2, r1, r2) ==
  LET dx == p2.x - p1.x
      dy == p2.y - p1.y
      D == dx * dx + dy * dy
  IN  IF D > Sq(r1 + r2) \/ D < Sq(r1 - r2) THEN << >>
      ELSE IF D = 0
        THEN << [nan |-> TRUE, pos |-> Vector2D(0, 0)],
                [nan |-> TRUE, pos |-> Vector2D(0, 0)] >>
      ELSE LET k == r1 * r1 - r2 * r2 + D
               x3 == p1.x + RoundDiv(k * dx, 2 * D)
               y3 == p1.y + RoundDiv(k * dy, 2 * D)
               h2 == sqrt(4 * D * r1 * r1 - k * k)
           IN  << [nan |-> FALSE,
                   pos |-> Vector2D(x3 + RoundDiv(h2 * dy, 2 * D),
                                    y3 - RoundDiv(h2 * dx, 2 * D))],
                  [nan |-> FALSE,
                   pos |-> Vector2D(x3 - RoundDiv(h2 * dy, 2 * D),
                                    y3 + RoundDiv(h2 * dx, 2 * D))] >>

\* Leg3Joint.evalConnPoint
evalConnPoint(leg) ==
  addPolar(leg.link.pos, leg.shoulderWidth * leg.scale,
           leg.link.directionAngle + 90 * (IF leg.isShoulderRight THEN -1 ELSE 1))

\* Leg3Joint.evalTargetPoint: measured from this.joints[0], the shoulder as
\* the previous update left it
evalTargetPoint(leg) ==
  addPolar(leg.joints[1], leg.anchorDistance * leg.scale,
           leg.link.directionAngle
             + leg.anchorAngle * (IF leg.isShoulderRight THEN -1 ELSE 1))

\* Leg3Joint.evalJointPoint for the given shoulder and foot: the knee and
\* whether it is NaN.  isForwardBend ^ isShoulderRight picks the point.
evalJointPoint(leg, shoulder, foot) ==
  LET intersectionPoints ==
        getIntercectionPoint(shoulder, foot, leg.lengthes[1] * leg.scale,
                             leg.lengthes[2] * leg.scale)
      l0 == leg.lengthes[1]
      l1 == leg.lengthes[2]
  IN  IF Len(intersectionPoints) > 0
        THEN intersectionPoints[IF leg.isForwardBend # leg.isShoulderRight
                                  THEN 2 ELSE 1]
        ELSE [nan |-> FALSE,
              pos |-> Vector2D(
                shoulder.x + RoundDiv(l0 * (foot.x - shoulder.x), l0 + l1),
                shoulder.y + RoundDiv(l0 * (foot.y - shoulder.y), l0 + l1))]

\* 100 * Math.sqrt(n): a distance in hundredths from its square
sqrt100(n) == sqrt(10000 * n)

\* the ratio of Leg3Joint.update without its second case: always
\* availableDistance / distToTarget
footRatioCrawling(leg, distTraveledSq, distToTargetSq) ==
  (10 * leg.returnSpeed * sqrt100(distTraveledSq)) \div sqrt100(distToTargetSq)

\* the ratio of Leg3Joint.update in hundredths, for an unstuck leg that does
\* not snap: availableDistance / distToTarget with availableDistance =
\* distTraveled * returnSpeed (returnSpeed in tenths), or
\* (distToTarget - lengthSum) / distToTarget from 1.5 * lengthSum on
footRatio(leg, distTraveledSq, distToTargetSq) ==
  LET lengthSum == (leg.lengthes[1] + leg.lengthes[2]) * leg.scale
      distToTarget == sqrt100(distToTargetSq)
  IN  IF 4 * distToTargetSq < 9 * Sq(lengthSum)
        THEN (10 * leg.returnSpeed * sqrt100(distTraveledSq)) \div distToTarget
        ELSE 100 - (10000 * lengthSum) \div distToTarget

\* dist > this.maxDifference with the scale left out
exceedsMaxDifferenceUnscaled(leg, distSq) == distSq > Sq(leg.maxDifference)

\* dist > this.maxDifference * this.scale, for the square of dist
exceedsMaxDifference(leg, distSq) == distSq > Sq(leg.maxDifference * leg.scale)

\* distToTarget <= distTraveled with returnSpeed left out
withinDistanceTraveled(leg, distToTargetSq, distTraveledSq) ==
  distToTargetSq <= distTraveledSq

\* distToTarget <= availableDistance = distTraveled * returnSpeed
\* (returnSpeed in tenths), for the squares of the two distances
withinAvailableDistance(leg, distToTargetSq, distTraveledSq) ==
  100 * distToTargetSq <= Sq(leg.returnSpeed) * distTraveledSq

\* Leg3Joint.update(): the leg after the call; wasSticked keeps this.sticked
\* as the call found it
Leg3Joint_update(leg) ==
  LET targetPoint == evalTargetPoint(leg)
      current == leg.joints[3]
      distSq == distanceSquared(current, targetPoint)
      sticked == IF exceedsMaxDifference(leg, distSq) THEN FALSE ELSE leg.sticked
      newJoint0 == evalConnPoint(leg)
      distTraveledSq == distanceSquared(leg.joints[1], newJoint0)
      snaps == withinAvailableDistance(leg, distSq, distTraveledSq)
      ratio == footRatio(leg, distTraveledSq, distSq)
      foot == IF sticked THEN current
              ELSE IF snaps THEN targetPoint
              ELSE Vector2D(
                     current.x + RoundDiv(ratio * (targetPoint.x - current.x), 100),
                     current.y + RoundDiv(ratio * (targetPoint.y - current.y), 100))
      knee == evalJointPoint(leg, newJoint0, foot)
  IN  [leg EXCEPT !.targetPoint = targetPoint,
                  !.wasSticked = leg.sticked,
                  !.sticked = sticked \/ snaps,
                  !.joints = <<newJoint0, knee.pos, foot>>,
                  !.kneeIsNaN = knee.nan]

\* new Leg3Joint(link, shoulderWidth, isShoulderRight, length1, length2,
\* constrains, returnSpeed, isForwardBend, scale) on chainLinks[linkIndex]:
\* the shoulder and the foot are placed, sticked is set, and the constructor
\* ends with update(), which also replaces the knee it computed
Leg3Joint(link, linkIndex, shoulderWidth, isShoulderRight, length1, length2, constrains, returnSpeed, isForwardBend, scale) ==
  LET leg0 == [scale |-> absScale(defaultScale(scale)),
               link |-> link,
               linkIndex |-> linkIndex,
               attached |-> TRUE,
               shoulderWidth |-> shoulderWidth,
               isShoulderRight |-> isShoulderRight,
               isForwardBend |-> isForwardBend,
               anchorAngle |-> constrains.anchorAngle,
               anchorDistance |-> constrains.anchorDistance,
               lengthes |-> <<length1, length2>>,
               joints |-> <<Vector2D(0, 0), Vector2D(0, 0), Vector2D(0, 0)>>,
               kneeIsNaN |-> FALSE,
               sticked |-> TRUE,
               wasSticked |-> TRUE,
               targetPoint |-> Vector2D(0, 0),
               maxDifference |-> constrains.maxDifference,
               returnSpeed |-> returnSpeed]
      leg1 == [leg0 EXCEPT !.joints[1] = evalConnPoint(leg0)]
      leg2 == [leg1 EXCEPT !.joints[3] = evalTargetPoint(leg1),
                           !.targetPoint = evalTargetPoint(leg1)]
  IN  CHOOSE updated \in {Leg3Joint_update(leg) : leg \in {leg2}} : TRUE

\* the legs see what an operation did to their ChainLink objects: a leg whose
\* link is still in chainLinks reads the updated element
legsSeeLinks(ls, links) ==
  [i \in 1..Len(ls) |->
     IF ls[i].attached THEN [ls[i] EXCEPT !.link = links[ls[i].linkIndex]]
     ELSE ls[i]]

\* this.legs.forEach((leg) => leg.update())
updateLegs(ls) == [i \in 1..Len(ls) |-> Leg3Joint_update(ls[i])]

\* this.legs.forEach((leg) => (leg.scale = scale)), each through the setter
\* of Leg3Joint
scaleLegs(ls, scale) ==
  [i \in 1..Len(ls) |-> [ls[i] EXCEPT !.scale = absScale(scale)]]

\* setCustomBodyShape replaces chainLinks by new ChainLink objects: the legs
\* keep the old ones
detachLegs(ls) == [i \in 1..Len(ls) |-> [ls[i] EXCEPT !.attached = FALSE]]

(* Lizard (animals.js): a BodyBase with four legs.  Angles are put on the    *)
(* grid: maxAngle 32 and 16 degrees are 30 and 15, anchorAngle 2.4 and 2.1   *)
(* rad (137.5 and 120.3 degrees) are 135 and 120.  Radii are in hundredths.  *)

toGrid(degrees) == 15 * RoundDiv(degrees, 15)

LizardRadiusArray(isLowRes) ==
  IF isLowRes
    THEN <<650, 1300, 900, 1575, 1650, 1600, 1450, 1100, 600, 350, 225, 200, 200>>
    ELSE <<200, 1100, 1300, 1300, 1000, 1300, 1550, 1600, 1650, 1650, 1600, 1600,
           1500, 1400, 1200, 1000, 700, 500, 400, 300, 250, 200, 200, 200, 200, 200>>

constrUp == [maxDifference |-> 30, anchorDistance |-> 25, anchorAngle |-> toGrid(138)]
constrDown == [maxDifference |-> 30, anchorDistance |-> 25, anchorAngle |-> toGrid(120)]

\* the body of a new Lizard: super(...) and super.update(basisPosition)
LizardBody(basisPosition, scale, isLowRes) ==
  BodyBase_update(
    BodyBase(LizardRadiusArray(isLowRes),
             IF isLowRes THEN 16 ELSE 8,
             toGrid(IF isLowRes THEN 32 ELSE 16),
             basisPosition,
             IF isLowRes THEN 5 ELSE 2,
             5,
             scale),
    basisPosition)

\* this.legs of a new Lizard; legLinks [3, 7] or [6, 14] count from 0,
\* returnSpeed 2.3 is in tenths
LizardLegs(links, scale, isLowRes) ==
  LET up == IF isLowRes THEN 4 ELSE 7
      down == IF isLowRes THEN 8 ELSE 15
  IN  << Leg3Joint(links[up], up, 8, FALSE, 20, 20, constrUp, 23, FALSE, scale),
         Leg3Joint(links[up], up, 8, TRUE, 20, 20, constrUp, 23, FALSE, scale),
         Leg3Joint(links[down], down, 8, FALSE, 20, 20, constrDown, 23, TRUE, scale),
         Leg3Joint(links[down], down, 8, TRUE, 20, 20, constrDown, 23, TRUE, scale) >>

\* Lizard.update(pos) and, for a body without legs, BodyBase.update(pos):
\* the pair <<body, legs>> after the call
Animal_update(b, ls, pos) ==
  CHOOSE updated \in
    UNION {{<<b2, updateLegs(seen)>> : seen \in {legsSeeLinks(ls, b2.chainLinks)}} :
             b2 \in {BodyBase_update(b, pos)}} : TRUE

(* Inputs of the BodyBase operations *)

MaxLinks == 4        \* longest radiusesArray given to BodyBase
MaxBodyOps == 2      \* BodyBase operations performed after construction

\* radiusesArray arguments: every length from 0 to MaxLinks
RadiusArrays == {[i \in 1..n |-> 10] : n \in 0..MaxLinks}
Spacings == {10}
MaxAngles == {30, 90}
Scales == {-2, 0, 1}
PointCounts == {1}
\* positions handed to update(pos)
HeadTargets ==
  {Vector2D(0, 0), Vector2D(10, 0), Vector2D(10, 20), Vector2D(-10, 30), Vector2D(0, -40)}

ScaleArguments == {Given(sc) : sc \in Scales} \cup {Omitted}
LowResChoices == {TRUE}

\* new BodyBase(...)
BodyStart ==
  /\ \E r \in RadiusArrays, sp \in Spacings, ma \in MaxAngles, sc \in ScaleArguments :
       /\ body = BodyBase(r, sp, ma, Vector2D(0, 0), 5, 5, sc)
       /\ bodyArg = [pos |-> Vector2D(0, 0), scale |-> sc,
                     head |-> Vector2D(0, 0), second |-> Vector2D(0, 0)]
  /\ legs = << >>
  /\ bodyOp = "new"
  /\ bodyOps = 0

\* new Lizard(basisPosition, style, scale, isLowRes): the body, the legs on
\* its links, and this.update(basisPosition)
LizardStart ==
  /\ \E sc \in ScaleArguments, isLowRes \in LowResChoices :
       LET b == LizardBody(Vector2D(0, 0), sc, isLowRes)
           made == Animal_update(b, LizardLegs(b.chainLinks, sc, isLowRes),
                                 Vector2D(0, 0))
       IN  /\ body = made[1]
           /\ legs = made[2]
           /\ bodyArg = [pos |-> Vector2D(0, 0), scale |-> sc,
                         head |-> Vector2D(0, 0), second |-> Vector2D(0, 0)]
  /\ bodyOp = "new"
  /\ bodyOps = 0

\* the BodyBase the other specifications hold and never touch
BodyIdle ==
  /\ body = BodyBase(<<10, 10>>, 10, 30, Vector2D(0, 0), 5, 5, Given(1))
  /\ bodyArg = [pos |-> Vector2D(0, 0), scale |-> Given(1),
                head |-> Vector2D(0, 0), second |-> Vector2D(0, 0)]
  /\ legs = << >>
  /\ bodyOp = "new"
  /\ bodyOps = 0

\* animal.update(pos): Lizard.update for a body with legs, BodyBase.update
\* otherwise; with fewer than two links chainLinks[1] is undefined and
\* reading link2.pos throws before anything is assigned
UpdateBody(pos) ==
  /\ bodyOps < MaxBodyOps
  /\ bodyOps' = bodyOps + 1
  /\ IF Len(body.chainLinks) >= 2
       THEN /\ LET made == Animal_update(body, legs, pos)
               IN  body' = made[1] /\ legs' = made[2]
            /\ bodyOp' = "update"
            /\ bodyArg' = [bodyArg EXCEPT !.pos = pos,
                                          !.head = body.chainLinks[1].pos,
                                          !.second = body.chainLinks[2].pos]
       ELSE /\ bodyOp' = "update threw"
            /\ UNCHANGED <<body, legs, bodyArg>>
  /\ UNCHANGED notBodyVars

\* body.setCustomBodyShape(...); with no link at all chainLinks[0] is
\* undefined and reading its pos throws before anything is assigned
SetCustomBodyShape(radiusesArray, spacing, maxAngle, headPoints, tailPoints) ==
  /\ bodyOps < MaxBodyOps
  /\ bodyOps' = bodyOps + 1
  /\ IF Len(body.chainLinks) >= 1
       THEN /\ body' = setCustomBodyShape(body, radiusesArray, spacing, maxAngle,
                                          headPoints, tailPoints)
            /\ legs' = detachLegs(legs)
            /\ bodyOp' = "setCustomBodyShape"
       ELSE /\ bodyOp' = "setCustomBodyShape threw"
            /\ UNCHANGED <<body, legs>>
  /\ UNCHANGED bodyArg
  /\ UNCHANGED notBodyVars

\* animal.scale = scale: the setter of Lizard for a body with legs, the
\* setter of BodyBase otherwise
SetBodyScale(scale) ==
  /\ bodyOps < MaxBodyOps
  /\ bodyOps' = bodyOps + 1
  /\ body' = [body EXCEPT !.scale = absScale(scale)]
  /\ legs' = scaleLegs(legs, scale)
  /\ bodyOp' = "scale"
  /\ bodyArg' = [bodyArg EXCEPT !.scale = Given(scale)]
  /\ UNCHANGED notBodyVars

BodyNext ==
  \/ \E pos \in HeadTargets : UpdateBody(pos)
  \/ \E r \in RadiusArrays, sp \in Spacings, ma \in MaxAngles, n \in PointCounts :
       SetCustomBodyShape(r, sp, ma, n, n)
  \/ \E sc \in Scales : SetBodyScale(sc)

(* One Leg3Joint on a link of its own: the link is moved and turned as a    *)
(* body update would, then leg.update() is called.  legs holds the leg,     *)
(* bodyArg the leg as the call found it, on the moved link.                 *)

\* where the link is put and the direction it is given
LinkPositions ==
  {Vector2D(0, 0), Vector2D(10, 0), Vector2D(30, 0), Vector2D(60, 0),
   Vector2D(36, 48), Vector2D(0, 100)}
LinkAngles == {-90, 0}
LegScales == {Given(1), Given(2)}

\* new Leg3Joint(link, 1, 8, isShoulderRight, 20, 20, constrUp, 2.3, false,
\* scale) on a new ChainLink at the origin
LegStart ==
  /\ \E isShoulderRight \in BOOLEAN, sc \in LegScales :
       legs = << Leg3Joint(ChainLink(10, Vector2D(0, 0)), 1, 8, isShoulderRight,
                           20, 20, constrUp, 23, FALSE, sc) >>
  /\ body = BodyBase(<<10, 10>>, 10, 30, Vector2D(0, 0), 5, 5, Given(1))
  /\ bodyArg = << >>
  /\ bodyOp = "new leg"
  /\ bodyOps = 0

\* link.pos = pos; link.directionAngle = a; leg.update()
UpdateLeg(pos, a) ==
  /\ bodyOps < MaxBodyOps
  /\ bodyOps' = bodyOps + 1
  /\ \E found \in {[legs[1] EXCEPT !.link.pos = pos, !.link.directionAngle = a]} :
       /\ legs' = << Leg3Joint_update(found) >>
       /\ bodyArg' = found
  /\ bodyOp' = "leg update"
  /\ UNCHANGED body
  /\ UNCHANGED notBodyVars

LegNext == \E pos \in LinkPositions, a \in LinkAngles : UpdateLeg(pos, a)

-----------------------------------------------------------------------------
(* Boid (simulation.js).  The coordinates of a boid's position, velocity and *)
(* acceleration are doubles that can become NaN: each is Num(v) or NaN.      *)
(* Positions are in pixels, velocities and accelerations in pixels per tick. *)

fAdd(a, b) == IF a.nan \/ b.nan THEN NaN ELSE Num(a.val + b.val)
fSub(a, b) == IF a.nan \/ b.nan THEN NaN ELSE Num(a.val - b.val)
\* a * k and a / k for a number k that is not NaN (k > 0 for the division)
fTimes(a, k) == IF a.nan THEN NaN ELSE Num(a.val * k)
fOver(a, k) == IF a.nan THEN NaN ELSE Num(RoundDiv(a.val, k))
\* a > b and a < b: false when either is NaN
fGreater(a, b) == ~a.nan /\ ~b.nan /\ a.val > b.val
fLess(a, b) == ~a.nan /\ ~b.nan /\ a.val < b.val

FVector(x, y) == [x |-> Num(x), y |-> Num(y)]
NaNVector == [x |-> NaN, y |-> NaN]
hasNaN(v) == v.x.nan \/ v.y.nan

\* add(vec), sub(vec), scale(number), div(number) of Vector2D
vAdd(v, w) == [x |-> fAdd(v.x, w.x), y |-> fAdd(v.y, w.y)]
vSub(v, w) == [x |-> fSub(v.x, w.x), y |-> fSub(v.y, w.y)]
vScale(v, k) == [x |-> fTimes(v.x, k), y |-> fTimes(v.y, k)]
vDiv(v, k) == [x |-> fOver(v.x, k), y |-> fOver(v.y, k)]

\* x * x + y * y of a vector without NaN
magnitudeSquared(v) == v.x.val * v.x.val + v.y.val * v.y.val

\* set magnitude(magnitude): a zero vector stays zero; a NaN coordinate
\* makes curMag NaN and with it both coordinates
setMagnitude(v, magnitude) ==
  IF hasNaN(v) THEN NaNVector
  ELSE IF magnitudeSquared(v) = 0 THEN FVector(0, 0)
  ELSE LET curMag == sqrt100(magnitudeSquared(v))
       IN  FVector(RoundDiv(v.x.val * magnitude * 100, curMag),
                   RoundDiv(v.y.val * magnitude * 100, curMag))

\* clampMag(max): the magnitude is cut to max, the direction kept
\* (clampedMagnitude * cos / sin of the vector's own angle)
clampMag(v, max) ==
  IF hasNaN(v) THEN NaNVector
  ELSE IF magnitudeSquared(v) <= max * max THEN v
  ELSE setMagnitude(v, max)

RECURSIVE vSum(_)
\* the sum of a sequence of vectors
vSum(vs) == IF vs = << >> THEN FVector(0, 0) ELSE vAdd(Head(vs), vSum(Tail(vs)))

\* d < perceptionRadius && boid != this, for the boids at k and j
perceives(fl, k, j, params) ==
  /\ j # k
  /\ ~hasNaN(fl[k].position) /\ ~hasNaN(fl[j].position)
  /\ magnitudeSquared(vSub(fl[k].position, fl[j].position))
       < params.perceptionRadius * params.perceptionRadius

\* the boids the loops of align, cohesion and separate count
perceived(fl, k, params) == {j \in 1..Len(fl) : perceives(fl, k, j, params)}

\* the sum over the perceived boids of what(j)
sumPerceived(fl, k, params, what) ==
  vSum([j \in 1..Len(fl) |->
          IF perceives(fl, k, j, params) THEN what[j] ELSE FVector(0, 0)])

\* Boid.align
align(fl, k, params) ==
  LET totalBoids == Cardinality(perceived(fl, k, params))
      desiredForce == sumPerceived(fl, k, params,
                                   [j \in 1..Len(fl) |-> fl[j].velocity])
  IN  IF totalBoids = 0 THEN FVector(0, 0)
      ELSE clampMag(vSub(setMagnitude(vDiv(desiredForce, totalBoids),
                                      params.maxVelocity),
                         fl[k].velocity),
                    params.maxAcceleration)

\* Boid.cohesion
cohesion(fl, k, params) ==
  LET totalBoids == Cardinality(perceived(fl, k, params))
      steering == sumPerceived(fl, k, params,
                               [j \in 1..Len(fl) |-> fl[j].position])
  IN  IF totalBoids = 0 THEN FVector(0, 0)
      ELSE clampMag(vSub(setMagnitude(vSub(vDiv(steering, totalBoids),
                                           fl[k].position),
                                      params.maxVelocity),
                         fl[k].velocity),
                    params.maxAcceleration)

\* diff = sub(this.position, boid.position); diff.div(d), in hundredths;
\* for d = 0 both coordinates are 0 / 0
unitDiff(p, q) ==
  LET diff == vSub(p, q)
  IN  IF hasNaN(diff) \/ magnitudeSquared(diff) = 0 THEN NaNVector
      ELSE FVector(RoundDiv(diff.x.val * 10000, sqrt100(magnitudeSquared(diff))),
                   RoundDiv(diff.y.val * 10000, sqrt100(magnitudeSquared(diff))))

\* Boid.separate
separate(fl, k, params) ==
  LET totalBoids == Cardinality(perceived(fl, k, params))
      avoidance == sumPerceived(fl, k, params,
                     [j \in 1..Len(fl) |-> unitDiff(fl[k].position, fl[j].position)])
  IN  IF totalBoids = 0 THEN FVector(0, 0)
      ELSE clampMag(vSub(setMagnitude(vDiv(avoidance, totalBoids),
                                      params.maxVelocity),
                         fl[k].velocity),
                    params.maxAcceleration)

\* Boid.flock: the acceleration it leaves
Boid_flock(fl, k, params) ==
  vAdd(vAdd(vScale(align(fl, k, params), params.alignmentImpact),
            vScale(cohesion(fl, k, params), params.cohesionImpact)),
       vScale(separate(fl, k, params), params.avoidanceImpact))

\* Boid.applyForce(vec, scale, radius): the acceleration after the call.
\* The force has magnitude scale / |forceVec|, so its coordinates are
\* forceVec * scale / |forceVec|^2; NaN > radius is false.
applyForce(boid, vec, scale, radius) ==
  LET forceVec == vSub(boid.position, FVector(vec[1], vec[2]))
  IN  IF ~hasNaN(forceVec) /\ magnitudeSquared(forceVec) > radius * radius
        THEN boid.acceleration
      ELSE IF hasNaN(forceVec) THEN vAdd(boid.acceleration, NaNVector)
      ELSE IF magnitudeSquared(forceVec) = 0 THEN boid.acceleration
      ELSE vAdd(boid.acceleration,
                FVector(RoundDiv(forceVec.x.val * scale, magnitudeSquared(forceVec)),
                        RoundDiv(forceVec.y.val * scale, magnitudeSquared(forceVec))))

RECURSIVE applyForcesButLast(_, _, _)
\* mutant of applyForces: the forEach stops before the last ripple point
applyForcesButLast(boid, ripplePoints, params) ==
  IF Len(ripplePoints) <= 1 THEN boid
  ELSE applyForcesButLast(
         [boid EXCEPT !.acceleration =
            applyForce(boid, Head(ripplePoints), params.mouseForceScale,
                       params.mouseForceRadius),
                      !.ripplesSeen = Append(@, Head(ripplePoints))],
         Tail(ripplePoints), params)

RECURSIVE applyForces(_, _, _)
\* ripplePoints.forEach((point) => boid.applyForce(point, ...))
applyForces(boid, ripplePoints, params) ==
  IF ripplePoints = << >> THEN boid
  ELSE applyForces(
         [boid EXCEPT !.acceleration =
            applyForce(boid, Head(ripplePoints), params.mouseForceScale,
                       params.mouseForceRadius),
                      !.ripplesSeen = Append(@, Head(ripplePoints))],
         Tail(ripplePoints), params)


\* Boid.edges(boundaries): the position after the call
edges(position, bounds) ==
  [x |-> IF fGreater(position.x, fAdd(bounds.width, bounds.left)) THEN bounds.left
         ELSE IF fLess(position.x, bounds.left) THEN fAdd(bounds.width, bounds.left)
         ELSE position.x,
   y |-> IF fGreater(position.y, fAdd(bounds.height, bounds.top)) THEN bounds.top
         ELSE IF fLess(position.y, bounds.top) THEN fAdd(bounds.height, bounds.top)
         ELSE position.y]

\* animal.update(position) as Boid.update calls it.  From then on
\* chainLinks[0].pos is the boid's position object (headIsPosition).  A NaN
\* in the position makes every angle and every further link NaN (nan).
\* updatesByBoid counts these calls.
animalUpdate(animal, position) ==
  IF animal.nan \/ hasNaN(position)
    THEN [animal EXCEPT !.nan = TRUE, !.headIsPosition = TRUE,
                        !.updatesByBoid = @ + 1]
    ELSE LET made == Animal_update(animal.body, animal.legs,
                                   Vector2D(position.x.val, position.y.val))
         IN  [animal EXCEPT !.body = made[1], !.legs = made[2],
                            !.headIsPosition = TRUE, !.updatesByBoid = @ + 1]

\* mutant of Boid_update: without the early return for a falsy deltaTime
Boid_updateAlways(boid, deltaTime, params) ==
  LET position == vAdd(boid.position, vScale(boid.velocity, deltaTime))
      velocity == clampMag(vAdd(boid.velocity, boid.acceleration),
                           params.maxVelocity)
  IN  [boid EXCEPT !.position = position,
                   !.velocity = velocity,
                   !.animal = animalUpdate(animalUpdate(@, position), position)]

\* Boid.update(deltaTime, params): the boid after the call
Boid_update(boid, deltaTime, params) ==
  IF deltaTime = 0 THEN boid
  ELSE LET position == vAdd(boid.position, vScale(boid.velocity, deltaTime))
           velocity == clampMag(vAdd(boid.velocity, boid.acceleration),
                                params.maxVelocity)
       IN  [boid EXCEPT !.position = position,
                        !.velocity = velocity,
                        !.animal = animalUpdate(animalUpdate(@, position), position)]

\* mutant of headFollows: the head link holds a copy of the position
headStays(boid) == boid

\* the head link shares the boid's position object: whatever edges() or the
\* integration wrote is the head link's pos
headFollows(boid) ==
  IF boid.animal.headIsPosition /\ ~boid.animal.nan /\ ~hasNaN(boid.position)
    THEN [boid EXCEPT !.animal.body.chainLinks[1].pos =
                        Vector2D(boid.position.x.val, boid.position.y.val)]
    ELSE boid

-----------------------------------------------------------------------------
(* Fish and Simulation (animals.js, simulation.js) *)

FishRadiusArray(isLowRes) ==
  IF isLowRes
    THEN <<1400, 1625, 1700, 1625, 1400, 1000, 750, 550>>
    ELSE <<1400, 1600, 1650, 1700, 1700, 1650, 1600, 1500, 1300, 1100, 900, 800,
           700, 600, 500>>

\* new Fish(basisPosition, style, scale, isLowRes): super(...) and
\* this.update(basisPosition)
Fish(basisPosition, scale, isLowRes) ==
  BodyBase_update(
    BodyBase(FishRadiusArray(isLowRes),
             IF isLowRes THEN 16 ELSE 8,
             toGrid(IF isLowRes THEN 32 ELSE 16),
             basisPosition, 10, 7, scale),
    basisPosition)

\* new Lizard(basisPosition, style, scale, isLowRes) as <<body, legs>>
Lizard(basisPosition, scale, isLowRes) ==
  CHOOSE lizard \in
    UNION {{Animal_update(b, ls, basisPosition) :
              ls \in {LizardLegs(b.chainLinks, scale, isLowRes)}} :
             b \in {LizardBody(basisPosition, scale, isLowRes)}} : TRUE

\* the animal addAnimal creates for the animalType type, at Vector2D.Zero
\* (a Lizard or, by default, a Fish); id tells the objects apart
newAnimal(type, scale, isLowRes, id) ==
  CHOOSE animal \in
    {[id |-> id, species |-> IF type = "lizard" THEN "lizard" ELSE "fish",
      nan |-> FALSE, body |-> made[1], legs |-> made[2],
      headIsPosition |-> FALSE, updatesByBoid |-> 0, graphicsInits |-> 0] :
       made \in {IF type = "lizard"
                   THEN Lizard(Vector2D(0, 0), scale, isLowRes)
                   ELSE <<Fish(Vector2D(0, 0), scale, isLowRes), << >> >>}} : TRUE

\* new Boid(..., animal, initialPos) with the random position and velocity
\* it drew
Boid(position, velocity, animal) ==
  [position |-> position, velocity |-> velocity, acceleration |-> FVector(0, 0),
   animal |-> animal, afterEdges |-> position, ripplesSeen |-> << >>]

\* this.boundaries of the Simulation constructor
newBoundaries(width, height, margin) ==
  [width |-> Num(width + margin * 2), height |-> Num(height + margin * 2),
   left |-> Num(-margin), top |-> Num(-margin), margin |-> Num(margin)]

\* Math.max(1, value), NaN for an undefined value
maxOne(value) == IF value.omitted THEN NaN ELSE Num(Max(1, value.value))

\* Simulation.setBounds(newWidth, newHeight, newMargin): the new boundaries.
\* The width is taken from Math.max(1, newMargin).
setBounds(bounds, newWidth, newHeight, newMargin) ==
  LET w == maxOne(newMargin)
      h == maxOne(Given(newHeight))
      margin == IF newMargin.omitted THEN bounds.margin ELSE Num(newMargin.value)
  IN  [width |-> fAdd(w, fTimes(margin, 2)),
       height |-> fAdd(h, fTimes(margin, 2)),
       left |-> fSub(Num(0), margin),
       top |-> fSub(Num(0), margin),
       margin |-> margin]

\* boid.edges(this.boundaries); afterEdges keeps what edges() left, and
\* ripplesSeen starts to collect the points applyForce is called with
wrapBoid(boid, bounds) ==
  [boid EXCEPT !.position = edges(@, bounds),
               !.afterEdges = edges(boid.position, bounds),
               !.ripplesSeen = << >>]

\* boid.flock(this.flock, this.params), the applyForce calls and
\* boid.update(deltaTime, this.params) for the boid at k
steerBoid(fl, k, ripplePoints, deltaTime, params) ==
  headFollows(
    Boid_update(
      applyForces([fl[k] EXCEPT !.acceleration = Boid_flock(fl, k, params)],
                  ripplePoints, params),
      deltaTime, params))

\* the body of the forEach of Simulation.update for the boid at k: the flock
\* it leaves.  The boid is wrapped, steered and integrated in place, so the
\* boids after it see its new position and velocity.
updateBoid(fl, k, ripplePoints, deltaTime, bounds, params) ==
  [j \in 1..Len(fl) |->
     IF j = k
       THEN steerBoid([fl EXCEPT ![k] = wrapBoid(@, bounds)], k, ripplePoints,
                      deltaTime, params)
       ELSE fl[j]]

RECURSIVE updateFlockBackwards(_, _, _, _, _, _)
\* mutant of updateFlock: the boids are advanced from the last to the first
updateFlockBackwards(fl, k, ripplePoints, deltaTime, bounds, params) ==
  IF k > Len(fl) THEN fl
  ELSE updateBoid(updateFlockBackwards(fl, k + 1, ripplePoints, deltaTime,
                                       bounds, params),
                  k, ripplePoints, deltaTime, bounds, params)

RECURSIVE updateFlock(_, _, _, _, _, _)
\* the forEach of Simulation.update from the boid at k on
updateFlock(fl, k, ripplePoints, deltaTime, bounds, params) ==
  IF k > Len(fl) THEN fl
  ELSE updateFlock(updateBoid(fl, k, ripplePoints, deltaTime, bounds, params),
                   k + 1, ripplePoints, deltaTime, bounds, params)

(* Inputs of the Simulation operations *)

MaxSimOps == 3      \* calls made on the Simulation

\* new SimulationParams(...) with whole-number impacts
SimParams ==
  [perceptionRadius |-> 50, alignmentImpact |-> 1, cohesionImpact |-> 1,
   avoidanceImpact |-> 1, mouseForceRadius |-> 150, mouseForceScale |-> 100,
   maxVelocity |-> 8, maxAcceleration |-> 4]

AnimalTypes == {"fish", "lizard"}
DeltaTimes == {0, 2}
\* the position and velocity the first boid drew: at the right and at the
\* left border, heading out
Spawns == {<<FVector(69, 20), FVector(1, 0)>>, <<FVector(-10, 20), FVector(-1, 0)>>}
\* the arguments of setBounds: with and without newMargin
BoundsArguments == {<<60, 40, Omitted>>, <<60, 40, Given(10)>>}

\* new Simulation(2, {width: 60, height: 40, margin: 10}, params, style,
\* [1, 1], animalType, true, ...)
SimStart ==
  /\ \E type \in AnimalTypes, spawn \in Spawns :
       /\ flock = << Boid(spawn[1], spawn[2],
                          newAnimal(type, Given(1), TRUE, 1)),
                     Boid(FVector(30, 25), FVector(0, 1),
                          newAnimal(type, Given(1), TRUE, 2)) >>
       /\ animalType = type
  /\ graphicContainers = <<1, 2>>
  /\ created = 2
  /\ destroyed = << >>
  /\ pixiInitialised = FALSE
  /\ boundaries = newBoundaries(60, 40, 10)
  /\ mousePos = <<0, 0>>
  /\ simOp = "new"
  /\ simArg = 0
  /\ simOps = 0

\* the Simulation the other specifications hold and never touch
SimIdle ==
  /\ flock = << >>
  /\ animalType = "fish"
  /\ graphicContainers = << >>
  /\ created = 0
  /\ destroyed = << >>
  /\ pixiInitialised = FALSE
  /\ boundaries = newBoundaries(60, 40, 10)
  /\ mousePos = <<0, 0>>
  /\ simOp = "new"
  /\ simArg = 0
  /\ simOps = 0

\* simulation.update(deltaTime)
Simulation_update(deltaTime) ==
  /\ simOps' = simOps + 1
  /\ getPointsCall
  /\ flock' = updateFlock(flock, 1, getPoints(points), deltaTime, boundaries,
                          SimParams)
  /\ simOp' = "update"
  /\ simArg' = deltaTime
  /\ UNCHANGED <<boundaries, mousePos>>
  /\ UNCHANGED <<popVars, notSimVars>>

\* simulation.addPoint(): a ripple at a copy of the mouse position
Simulation_addPoint ==
  /\ simOps' = simOps + 1
  /\ addPointCall(mousePos)
  /\ simOp' = "addPoint"
  /\ UNCHANGED <<flock, boundaries, mousePos, simArg>>
  /\ UNCHANGED <<popVars, notSimVars>>

\* mutant of Simulation_setMousePos: the queued ripples hold the mousePos
\* object itself, so writing into it moves them
Simulation_setMousePosShared(vec) ==
  /\ simOps' = simOps + 1
  /\ mousePos # vec
  /\ mousePos' = vec
  /\ points' = [i \in 1..Len(points) |-> [points[i] EXCEPT !.pos = vec]]
  /\ simOp' = "setMousePos"
  /\ UNCHANGED <<flock, boundaries, simArg>>
  /\ UNCHANGED <<now, timers, nextId, accepted, removed, lastQuery, rippleOp,
                 addStored>>
  /\ UNCHANGED <<popVars, notSimVars>>

\* simulation.setMousePos(vec)
Simulation_setMousePos(vec) ==
  /\ simOps' = simOps + 1
  /\ mousePos # vec
  /\ mousePos' = vec
  /\ simOp' = "setMousePos"
  /\ UNCHANGED <<flock, boundaries, simArg>>
  /\ UNCHANGED <<popVars, ripplesVars, notSimVars>>

\* simulation.setBounds(newWidth, newHeight, newMargin)
Simulation_setBounds(newWidth, newHeight, newMargin) ==
  /\ simOps' = simOps + 1
  /\ boundaries' = setBounds(boundaries, newWidth, newHeight, newMargin)
  /\ boundaries' # boundaries
  /\ simOp' = "setBounds"
  /\ simArg' = <<newWidth, newHeight, newMargin>>
  /\ UNCHANGED <<flock, mousePos>>
  /\ UNCHANGED <<popVars, ripplesVars, notSimVars>>

SimNext ==
  \/ simOps < MaxSimOps /\ \E deltaTime \in DeltaTimes : Simulation_update(deltaTime)
  \/ simOps < MaxSimOps /\ Simulation_addPoint
  \/ simOps < MaxSimOps /\ \E vec \in RipplePositions : Simulation_setMousePos(vec)
  \/ simOps < MaxSimOps /\ \E a \in BoundsArguments : Simulation_setBounds(a[1], a[2], a[3])
  \/ TimerFire
  \/ ((\E t \in timers : t.due > now) /\ ClockTick)

(* A window that is resized while the simulation runs: ticks, ripples and    *)
(* setBounds(width, height) as SimulationWrapper.resize calls it, one call   *)
(* more than SimNext allows, no removal timer running in between             *)

MaxResizeOps == 4   \* calls made on the Simulation

ResizeNext ==
  \/ simOps < MaxResizeOps /\ Simulation_update(2)
  \/ simOps < MaxResizeOps /\ Simulation_addPoint
  \/ simOps < MaxResizeOps /\ Simulation_setBounds(60, 40, Omitted)

-----------------------------------------------------------------------------
(* The population of a Simulation (simulation.js): addAnimal,                *)
(* updateBoidAmount, replaceAnimalType.  They are operators on the record    *)
(* of the fields they touch; threw tells that the call raised an exception,  *)
(* which ends it where it stands.                                            *)

MaxBoids == 3        \* largest amount given to updateBoidAmount

\* the position and velocity a boid added later draws
LaterSpawn == <<FVector(30, 25), FVector(0, 1)>>

population(fl, type, containers, made, gone) ==
  [flock |-> fl, animalType |-> type, graphicContainers |-> containers,
   created |-> made, destroyed |-> gone, threw |-> FALSE]

\* Simulation.addAnimal(i).  For AnimalType.UNDEFINED it calls
\* this.customAnimalCallback, a field nothing assigns (the constructor stores
\* the callback as this.customAnimalCB): a TypeError.
addAnimal(sim, i) ==
  IF sim.threw THEN sim
  ELSE IF sim.animalType = "undefined" THEN [sim EXCEPT !.threw = TRUE]
  ELSE [sim EXCEPT
          !.graphicContainers = Append(@, sim.created + 1),
          !.flock = Append(@, Boid(LaterSpawn[1], LaterSpawn[2],
                                   newAnimal(sim.animalType, Given(1), TRUE,
                                             sim.created + 1))),
          !.created = @ + 1]

RECURSIVE addAnimals(_, _, _)
\* for (let i = from; i < to; i++) this.addAnimal(i); the set holds the
\* record one addAnimal left, from which the loop goes on
addAnimals(sim, from, to) ==
  IF from >= to THEN sim
  ELSE CHOOSE result \in {addAnimals(next, from + 1, to) :
                            next \in {addAnimal(sim, from)}} : TRUE

\* animal.initPixiGrafics(): the animal builds its PIXI graphics once more;
\* graphicsInits counts the calls
initPixiGrafics(boid) == [boid EXCEPT !.animal.graphicsInits = @ + 1]

\* the body of the loop of updateBoidAmount: const animal = this.addAnimal(i);
\* animal.initPixiGrafics()
addInitialisedAnimal(sim, i) ==
  CHOOSE result \in
    {IF added.threw THEN added
     ELSE [added EXCEPT !.flock[Len(added.flock)] = initPixiGrafics(@)] :
       added \in {addAnimal(sim, i)}} : TRUE

RECURSIVE addInitialisedAnimals(_, _, _)
\* for (let i = 0; i < amountToAdd; i++) { ... this.addAnimal(amount + i) ... }
addInitialisedAnimals(sim, from, to) ==
  IF from >= to THEN sim
  ELSE CHOOSE result \in {addInitialisedAnimals(next, from + 1, to) :
                            next \in {addInitialisedAnimal(sim, from)}} : TRUE

\* Array.prototype.slice(0, -count) for count > 0
sliceOff(seq, count) == SubSeq(seq, 1, Max(Len(seq) - count, 0))

\* Array.prototype.slice(-count) for count > 0
sliceLast(seq, count) == SubSeq(seq, Max(Len(seq) - count, 0) + 1, Len(seq))

\* Simulation.updateBoidAmount(amount)
updateBoidAmount(sim, amount) ==
  LET curAmount == Len(sim.flock)
      itemsToDelete == sliceLast(sim.flock, curAmount - amount)
  IN  IF sim.threw THEN sim
      ELSE IF amount < curAmount
        THEN [sim EXCEPT
                !.destroyed = @ \o [k \in 1..Len(itemsToDelete) |->
                                      itemsToDelete[k].animal.id],
                !.flock = sliceOff(@, curAmount - amount),
                !.graphicContainers = sliceOff(@, curAmount - amount)]
        ELSE addInitialisedAnimals(sim, amount, amount + (amount - curAmount))

\* Simulation.replaceAnimalType(newAnimalType)
replaceAnimalType(sim, newAnimalType) ==
  updateBoidAmount([updateBoidAmount(sim, 0) EXCEPT !.animalType = newAnimalType],
                   Len(sim.flock))

\* what a call left in the fields of the Simulation
populationIs(sim) ==
  /\ flock' = sim.flock
  /\ animalType' = sim.animalType
  /\ graphicContainers' = sim.graphicContainers
  /\ created' = sim.created
  /\ destroyed' = sim.destroyed

(* Inputs of the population operations *)

BoidAmounts == 0..MaxBoids
\* the animalType values: two species and AnimalType.UNDEFINED
AnimalTypeValues == AnimalTypes \cup {"undefined"}
\* numberOfBoids of the constructor
BoidNumbers == {0, 2}

\* new Simulation(numberOfBoids, {width: 60, height: 40, margin: 10}, params,
\* style, [1, 1], animalType, true, ...), for the arguments with which the
\* constructor returns
FlockStart ==
  /\ \E type \in AnimalTypeValues, numberOfBoids \in BoidNumbers :
       /\ type = "undefined" => numberOfBoids = 0
       /\ \E sim \in {addAnimals(population(<< >>, type, << >>, 0, << >>),
                                   0, numberOfBoids)} :
            /\ flock = sim.flock
            /\ animalType = sim.animalType
            /\ graphicContainers = sim.graphicContainers
            /\ created = sim.created
            /\ destroyed = sim.destroyed
  /\ pixiInitialised = FALSE
  /\ boundaries = newBoundaries(60, 40, 10)
  /\ mousePos = <<0, 0>>
  /\ simOp = "new"
  /\ simArg = 0
  /\ simOps = 0

\* simulation.updateBoidAmount(amount)
Simulation_updateBoidAmount(amount) ==
  /\ simOps < MaxSimOps
  /\ simOps' = simOps + 1
  /\ \E sim \in {updateBoidAmount(
                     population(flock, animalType, graphicContainers, created,
                                destroyed), amount)} :
       /\ populationIs(sim)
       /\ simOp' = IF sim.threw THEN "updateBoidAmount threw"
                   ELSE "updateBoidAmount"
  /\ simArg' = amount
  /\ UNCHANGED <<boundaries, mousePos, pixiInitialised>>
  /\ UNCHANGED <<ripplesVars, notSimVars>>

\* simulation.replaceAnimalType(newAnimalType)
Simulation_replaceAnimalType(newAnimalType) ==
  /\ simOps < MaxSimOps
  /\ simOps' = simOps + 1
  /\ \E sim \in {replaceAnimalType(
                     population(flock, animalType, graphicContainers, created,
                                destroyed), newAnimalType)} :
       /\ populationIs(sim)
       /\ simOp' = IF sim.threw THEN "replaceAnimalType threw"
                   ELSE "replaceAnimalType"
  /\ simArg' = newAnimalType
  /\ UNCHANGED <<boundaries, mousePos, pixiInitialised>>
  /\ UNCHANGED <<ripplesVars, notSimVars>>

FlockNext ==
  \/ \E amount \in BoidAmounts : Simulation_updateBoidAmount(amount)
  \/ \E type \in AnimalTypeValues : Simulation_replaceAnimalType(type)

(* The PIXI renderer of a SimulationWrapper: the constructor starts the      *)
(* asynchronous initPixi, whose continuation after `await this.app.init`     *)
(* runs as a task of its own, before or after any call the page makes on     *)
(* the wrapper                                                               *)

\* the continuation of SimulationWrapper.initPixi:
\* this.simulation.initPixiGrafics() calls initPixiGrafics of the animal of
\* every boid in the flock
InitPixiCompletes ==
  /\ ~pixiInitialised
  /\ pixiInitialised' = TRUE
  /\ flock' = [k \in 1..Len(flock) |-> initPixiGrafics(flock[k])]
  /\ simOp' = "initPixiGrafics"
  /\ UNCHANGED <<animalType, graphicContainers, created, destroyed>>
  /\ UNCHANGED <<boundaries, mousePos, simArg, simOps>>
  /\ UNCHANGED <<ripplesVars, notSimVars>>

\* the creature amounts and species the page asks for
PixiAmounts == {1, 3}
PixiTypes == {"lizard"}

\* wrapper.changeCreaturesAmount(amount), wrapper.replaceAnimalType(type) and
\* the completion of initPixi, in any order
PixiNext ==
  \/ \E amount \in PixiAmounts : Simulation_updateBoidAmount(amount)
  \/ \E type \in PixiTypes : Simulation_replaceAnimalType(type)
  \/ InitPixiCompletes

-----------------------------------------------------------------------------
(* getIntercectionPoint (utils.js) called on its own *)

\* no call made yet
GeomIdle ==
  /\ circles = << >>
  /\ intersections = << >>

(* Inputs of getIntercectionPoint: centres at integer distances 0, 5, 10,    *)
(* 13 and 15 and at an irrational one, radii from 0                          *)

Centres ==
  {Vector2D(0, 0), Vector2D(3, 4), Vector2D(-4, 3), Vector2D(6, 8), Vector2D(10, 0),
   Vector2D(0, -10), Vector2D(5, 12), Vector2D(9, 12), Vector2D(1, 1), Vector2D(0, 5)}
Radii == {0, 3, 5, 10}

\* getIntercectionPoint(p1, p2, r1, r2)
Intersect(p1, p2, r1, r2) ==
  /\ circles' = <<p1, p2, r1, r2>>
  /\ intersections' = getIntercectionPoint(p1, p2, r1, r2)
  /\ UNCHANGED notGeomVars

GeomNext ==
  \E p1 \in {Vector2D(0, 0), Vector2D(1, 1)}, p2 \in Centres, r1 \in Radii, r2 \in Radii :
    Intersect(p1, p2, r1, r2)

-----------------------------------------------------------------------------
(* The specifications *)

RipplesInit == RipplesStart /\ BodyIdle /\ SimIdle /\ GeomIdle

SpecRipples == RipplesInit /\ [][RipplesNext]_vars

BodyInit == (BodyStart \/ LizardStart) /\ RipplesStart /\ SimIdle /\ GeomIdle

SpecBody == BodyInit /\ [][BodyNext]_vars

LegInit == LegStart /\ RipplesStart /\ SimIdle /\ GeomIdle

SpecLeg == LegInit /\ [][LegNext]_vars

SimInit == SimStart /\ RipplesStart /\ BodyIdle /\ GeomIdle

SpecSim == SimInit /\ [][SimNext]_vars

SpecResize == SimInit /\ [][ResizeNext]_vars

GeomInit == GeomIdle /\ RipplesStart /\ BodyIdle /\ SimIdle

SpecGeom == GeomInit /\ [][GeomNext]_vars

FlockInit == FlockStart /\ RipplesStart /\ BodyIdle /\ GeomIdle

SpecFlock == FlockInit /\ [][FlockNext]_vars

SpecPixi == FlockInit /\ [][PixiNext]_vars

-----------------------------------------------------------------------------
(* C1: the ripple queue never holds more than maxRipples points, and an     *)
(* addPoint call made while the queue is full stores no point and schedules *)
(* no removal timer.                                                        *)
C1_Capacity ==
  /\ [](Len(points) <= MaxRipples)
  /\ [][(rippleOp' = "addPoint" /\ Len(points) >= MaxRipples)
          => (points' = points /\ timers' = timers)]_vars

\* a full queue has just rejected an addPoint
C1_Witness ==
  /\ rippleOp = "addPoint"
  /\ ~addStored
  /\ Len(points) = MaxRipples
  /\ Cardinality(timers) = MaxRipples

SimulationTick == simOp' = "update" /\ simOps' = simOps + 1

(* C3: in every Simulation.update(dt) tick, each boid's animal has its       *)
(* update invoked exactly once, whatever dt is.                              *)
C3_AnimalUpdatedOncePerTick ==
  [][SimulationTick =>
       \A k \in 1..Len(flock) :
         flock'[k].animal.updatesByBoid = flock[k].animal.updatesByBoid + 1]_vars


\* the angle at link i-1 between the directions to link i-2 and to link i, in
\* degrees in (-180, 180], measured on the positions (links counted from 1)
JointAngle(links, i) ==
  wrapAngleDiff(angle(sub(links[i].pos, links[i - 1].pos))
                  - angle(sub(links[i - 2].pos, links[i - 1].pos)))

(* C4: right after update(p), a second update(p) leaves every link's pos,    *)
(* every link's directionAngle and totalCurvature as they are.               *)
C4_UpdateIdempotent ==
  bodyOp = "update" =>
    LET again == BodyBase_update(body, bodyArg.pos)
    IN  /\ \A i \in 1..Len(body.chainLinks) :
             /\ again.chainLinks[i].pos = body.chainLinks[i].pos
             /\ again.chainLinks[i].directionAngle = body.chainLinks[i].directionAngle
        /\ again.totalCurvature = body.totalCurvature

(* C5: after every update, totalCurvature is a number between -1 and 1       *)
(* (-1000 and 1000 thousandths).                                             *)
C5_CurvatureInRange ==
  bodyOp = "update" =>
    /\ ~body.totalCurvature.nan
    /\ body.totalCurvature.val >= -1000
    /\ body.totalCurvature.val <= 1000

(* C6: a BodyBase always has at least two chain links, after construction    *)
(* and after every later operation.                                          *)
C6_AtLeastTwoLinks == Len(body.chainLinks) >= 2

(* C7: the stored scale of the body (a BodyBase or a Lizard) and of each of  *)
(* its legs is non-negative and equals the absolute value of the scale last  *)
(* supplied, to the constructor (1 when the argument was omitted) or to the  *)
(* scale setter.                                                             *)
C7_ScaleIsAbsOfSupplied ==
  LET supplied == IF bodyArg.scale.omitted THEN 1 ELSE bodyArg.scale.value
  IN  /\ body.scale >= 0
      /\ body.scale = Abs(supplied)
      /\ \A i \in 1..Len(legs) :
           legs[i].scale >= 0 /\ legs[i].scale = Abs(supplied)

\* a Lizard has been given a negative scale through its setter
C7_Witness ==
  /\ bodyOp = "scale"
  /\ Len(legs) = 4
  /\ bodyArg.scale.value < 0
  /\ body.scale = -bodyArg.scale.value
  /\ legs[4].scale = -bodyArg.scale.value

(* C8: after every update, every link i >= 2 (the third link on) lies at    *)
(* spacing*scale from link i-1 in a direction that differs from the          *)
(* direction of link i-1 to link i-2 by an angle of magnitude at least       *)
(* 180 - maxAngle degrees; where the links are apart (spacing*scale > 0)     *)
(* that is the angle measured at link i-1 between link i-2 and link i.       *)
C8_JointsWithinMaxAngle ==
  bodyOp = "update" =>
    \A i \in 3..Len(body.chainLinks) :
      LET links == body.chainLinks
          anchorAngle == angle(sub(links[i - 2].pos, links[i - 1].pos))
      IN  /\ \E angleDiff \in AngleGrid :
               /\ Abs(angleDiff) >= 180 - body.maxAngle
               /\ links[i].pos = addPolar(links[i - 1].pos, body.spacing * body.scale,
                                          anchorAngle + angleDiff)
          /\ body.spacing * body.scale > 0 =>
               Abs(JointAngle(links, i)) >= 180 - body.maxAngle

\* an update has clamped a joint: it sits exactly on the rim of the cone
\* although the link came from outside it
C8_Witness ==
  /\ bodyOp = "update"
  /\ body.spacing * body.scale > 0
  /\ \E i \in 3..Len(body.chainLinks) :
       /\ Abs(JointAngle(body.chainLinks, i)) = 180 - body.maxAngle
       /\ body.chainLinks[i].directionAngle # angle(sub(body.chainLinks[i].pos,
                                                         body.chainLinks[i - 1].pos))


(* C9: Boid.edges is a hard wrap.  A boid whose x exceeds left + width is     *)
(* placed at exactly left, one whose x is below left at exactly left + width, *)
(* likewise for y with top and height; a boid inside the closed rectangle is  *)
(* left unchanged; so after edges() the position is inside                    *)
(* [left, left + width] x [top, top + height].                                *)
insideBounds(position, bounds) ==
  /\ ~position.x.nan /\ ~position.y.nan
  /\ ~fLess(position.x, bounds.left)
  /\ ~fGreater(position.x, fAdd(bounds.left, bounds.width))
  /\ ~fLess(position.y, bounds.top)
  /\ ~fGreater(position.y, fAdd(bounds.top, bounds.height))
  /\ ~bounds.width.nan /\ ~bounds.height.nan

C9_EdgesHardWrap ==
  [][SimulationTick =>
       \A k \in 1..Len(flock) :
         LET before == flock[k].position
             after == flock'[k].afterEdges
             right == fAdd(boundaries.left, boundaries.width)
             bottom == fAdd(boundaries.top, boundaries.height)
         IN  /\ fGreater(before.x, right) => after.x = boundaries.left
             /\ fLess(before.x, boundaries.left) => after.x = right
             /\ fGreater(before.y, bottom) => after.y = boundaries.top
             /\ fLess(before.y, boundaries.top) => after.y = bottom
             /\ insideBounds(before, boundaries) => after = before
             /\ insideBounds(after, boundaries)]_vars

(* C10: a leg that is sticked with its foot within maxDifference*scale of   *)
(* its target point stays sticked, with its foot where it is, across an      *)
(* update during which its parent link's position and direction do not       *)
(* change.                                                                   *)
C10_StickedLegStaysSticked ==
  [][\A i \in 1..Len(legs) :
       ( /\ bodyOp' = "update"
         /\ legs[i].sticked
         /\ distanceSquared(legs[i].joints[3], legs[i].targetPoint)
              <= Sq(legs[i].maxDifference * legs[i].scale)
         /\ legs'[i].link = legs[i].link )
       => /\ legs'[i].sticked
          /\ legs'[i].joints[3] = legs[i].joints[3]]_vars


(* C11: within one Simulation.update tick every boid is subjected to the     *)
(* same ripple points, those present when the tick started, whatever         *)
(* additions and timer-driven removals happen between ticks.                 *)
C11_SameRipplesForAllBoids ==
  [][SimulationTick =>
       \A k \in 1..Len(flock) :
         flock'[k].ripplesSeen = [i \in 1..Len(points) |-> points[i].pos]]_vars

\* a tick that pushed both boids with the one ripple that was left after a
\* timer had removed another one
C11_Witness ==
  /\ simOp = "update"
  /\ removed # {}
  /\ Len(flock) = 2
  /\ Len(flock[1].ripplesSeen) = 1
  /\ flock[2].ripplesSeen = flock[1].ripplesSeen
  /\ rippleOp = "getPoints"

(* C12: the boundaries always describe the rectangle                         *)
(* [-margin, width + margin] x [-margin, height + margin] of the most        *)
(* recently supplied width, height and margin: after construction and after  *)
(* every setBounds(newWidth, newHeight, newMargin) left = top = -margin,     *)
(* width = newWidth + 2 * margin, height = newHeight + 2 * margin, where     *)
(* margin is newMargin or, when that is omitted, the margin stored before.   *)
rectangleOf(width, height, margin) ==
  [width |-> Num(width + 2 * margin), height |-> Num(height + 2 * margin),
   left |-> Num(-margin), top |-> Num(-margin), margin |-> Num(margin)]

C12_BoundariesOfSuppliedRectangle ==
  /\ simOp = "new" => boundaries = rectangleOf(60, 40, 10)
  /\ simOp = "setBounds" =>
       /\ ~boundaries.margin.nan
       /\ boundaries = rectangleOf(simArg[1], simArg[2],
                                   IF simArg[3].omitted THEN boundaries.margin.val
                                   ELSE simArg[3].value)

\* a call of updateBoidAmount made in this step, returned or thrown
UpdateBoidAmountStep ==
  /\ simOps' = simOps + 1
  /\ simOp' \in {"updateBoidAmount", "updateBoidAmount threw"}

\* a call of replaceAnimalType made in this step, returned or thrown
ReplaceAnimalTypeStep ==
  /\ simOps' = simOps + 1
  /\ simOp' \in {"replaceAnimalType", "replaceAnimalType threw"}

\* how many times the animal id has been destroyed according to the list gone
timesDestroyed(gone, id) == Cardinality({k \in 1..Len(gone) : gone[k] = id})

\* the ids of the animals of the boids fl[from..to]
animalIds(fl, from, to) == {fl[k].animal.id : k \in from..to}

\* C13: after updateBoidAmount(n) the flock holds exactly n boids and
\* graphicContainers has the same length; when shrinking the first n boids
\* survive in order and each removed animal is destroyed exactly once; when
\* growing the existing boids are kept in order and n - old new ones follow.
C13_UpdateBoidAmountLeavesN ==
  [][UpdateBoidAmountStep =>
       LET n == simArg'
           old == Len(flock)
       IN  /\ Len(flock') = n
           /\ Len(graphicContainers') = Len(flock')
           /\ n < old =>
                /\ flock' = SubSeq(flock, 1, n)
                /\ \A id \in animalIds(flock, n + 1, old) :
                     timesDestroyed(destroyed', id) = timesDestroyed(destroyed, id) + 1
                /\ \A id \in animalIds(flock, 1, n) :
                     timesDestroyed(destroyed', id) = timesDestroyed(destroyed, id)
           /\ n >= old =>
                /\ SubSeq(flock', 1, old) = flock
                /\ created' = created + (n - old)
                /\ destroyed' = destroyed]_vars

\* C13 for the calls made while animalType is a species
C13_HoldsForSpecies ==
  [][(UpdateBoidAmountStep /\ animalType # "undefined") =>
       LET n == simArg'
           old == Len(flock)
       IN  /\ Len(flock') = n
           /\ Len(graphicContainers') = Len(flock')
           /\ n < old =>
                /\ flock' = SubSeq(flock, 1, n)
                /\ \A id \in animalIds(flock, n + 1, old) :
                     timesDestroyed(destroyed', id) = timesDestroyed(destroyed, id) + 1
                /\ \A id \in animalIds(flock, 1, n) :
                     timesDestroyed(destroyed', id) = timesDestroyed(destroyed, id)
           /\ n >= old =>
                /\ SubSeq(flock', 1, old) = flock
                /\ created' = created + (n - old)
                /\ destroyed' = destroyed]_vars

\* C14: after replaceAnimalType(t) the flock has as many boids as before,
\* every animal is an instance of species t created by this call, and every
\* previous animal has been destroyed.
C14_ReplaceIsDrainAndRespawn ==
  [][ReplaceAnimalTypeStep =>
       /\ Len(flock') = Len(flock)
       /\ \A k \in 1..Len(flock') :
            /\ flock'[k].animal.id > created
            /\ simArg' # "undefined" => flock'[k].animal.species = simArg'
       /\ \A id \in animalIds(flock, 1, Len(flock)) :
            timesDestroyed(destroyed', id) = timesDestroyed(destroyed, id) + 1]_vars

\* C14 for the calls that name a species
C14_HoldsForSpecies ==
  [][(ReplaceAnimalTypeStep /\ simArg' # "undefined") =>
       /\ Len(flock') = Len(flock)
       /\ animalType' = simArg'
       /\ \A k \in 1..Len(flock') :
            /\ flock'[k].animal.id > created
            /\ flock'[k].animal.species = simArg'
       /\ \A id \in animalIds(flock, 1, Len(flock)) :
            timesDestroyed(destroyed', id) = timesDestroyed(destroyed, id) + 1]_vars

\* C16: with animalType UNDEFINED a call that has to add boids returns
\* normally, each addAnimal having added one boid made by the callback.
C16_UndefinedTypeUsesCallback ==
  [][(UpdateBoidAmountStep /\ animalType = "undefined" /\ simArg' > Len(flock)) =>
       /\ simOp' = "updateBoidAmount"
       /\ Len(flock') = simArg'
       /\ created' = created + (simArg' - Len(flock))]_vars

\* every call that adds a boid under AnimalType.UNDEFINED throws, and only
\* such calls throw
C16_ThrowsExactlyWhenAddingUndefined ==
  [][UpdateBoidAmountStep =>
       (simOp' = "updateBoidAmount threw"
          <=> (animalType = "undefined" /\ simArg' > Len(flock)))]_vars

\* the square of the distance d between the centres of the last call
centresDistSq == Sq(circles[2].x - circles[1].x) + Sq(circles[2].y - circles[1].y)

\* C15: getIntercectionPoint returns the empty list when d > r1 + r2 or
\* d < |r1 - r2| and exactly two points otherwise, tangent circles included.
\* d, r1 + r2 and |r1 - r2| are not negative: their squares are compared.
C15_NoneOrTwoPoints ==
  circles # << >> =>
    IF \/ centresDistSq > Sq(circles[3] + circles[4])
       \/ centresDistSq < Sq(circles[3] - circles[4])
      THEN intersections = << >>
      ELSE Len(intersections) = 2

\* externally tangent circles (d = 10 = 5 + 5) got two points, and so did
\* internally tangent ones (d = 5 = 10 - 5)
C15_Witness ==
  /\ circles # << >>
  /\ Len(intersections) = 2
  /\ \/ (centresDistSq = 100 /\ circles[3] = 5 /\ circles[4] = 5)
     \/ (centresDistSq = 25 /\ circles[3] = 10 /\ circles[4] = 5)

\* the points of a call are numbers: not so for concentric circles of equal
\* radius (d = 0), whose two points are NaN
C15_PointsAreNumbers ==
  \A k \in 1..Len(intersections) : ~intersections[k].nan

\* the second link as update(pos) leaves it when the direction is taken from
\* the point from to the second link's position before the call
secondLinkAlong(from) ==
  addPolar(bodyArg.pos, body.spacing * body.scale, angle(sub(bodyArg.second, from)))

\* C17 as stated: update(targetPos) places the second link at spacing*scale
\* from targetPos along the direction from the head link's position before
\* the call to the second link's position before the call.
C17_SecondLinkAlongOldHead ==
  bodyOp = "update" => body.chainLinks[2].pos = secondLinkAlong(bodyArg.head)

\* C17: update(targetPos) places the second link at spacing*scale from
\* targetPos along the direction from targetPos, the head link's new
\* position, to the second link's position before the call.
C17_SecondLinkAlongNewHead ==
  bodyOp = "update" => body.chainLinks[2].pos = secondLinkAlong(bodyArg.pos)

\* an update that moved the head so that the two directions differ, and put
\* the second link where the direction from the new head leads
C17_Witness ==
  /\ bodyOp = "update"
  /\ bodyArg.head # bodyArg.pos
  /\ secondLinkAlong(bodyArg.head) # secondLinkAlong(bodyArg.pos)
  /\ body.chainLinks[2].pos = secondLinkAlong(bodyArg.pos)

\* a call of update(pos) made in this step on a body that has legs
LegsUpdateStep ==
  /\ bodyOps' = bodyOps + 1
  /\ bodyOp' = "update"
  /\ Len(legs) > 0

\* the point at anchorDistance*scale from shoulder at the angle
\* link.directionAngle +/- anchorAngle of the leg
targetFrom(leg, shoulder) ==
  addPolar(shoulder, leg.anchorDistance * leg.scale,
           leg.link.directionAngle
             + leg.anchorAngle * (IF leg.isShoulderRight THEN -1 ELSE 1))

\* C18: the target point of an update() is the shoulder anchor evaluated in
\* the same call plus anchorDistance*scale at link.directionAngle +/-
\* anchorAngle.
C18_TargetFromCurrentShoulder ==
  bodyOp = "update" =>
    \A i \in 1..Len(legs) :
      /\ legs[i].joints[1] = evalConnPoint(legs[i])
      /\ legs[i].targetPoint = targetFrom(legs[i], legs[i].joints[1])

\* what update() does: the target is measured from the shoulder the previous
\* update left, at the link's current direction
C18_TargetFromPreviousShoulder ==
  [][LegsUpdateStep =>
       \A i \in 1..Len(legs) :
         /\ legs'[i].joints[1] = evalConnPoint(legs'[i])
         /\ legs'[i].targetPoint = targetFrom(legs'[i], legs[i].joints[1])]_vars

\* the square of the distance from the foot the update found to its target
footToTargetSq(before, after) == distanceSquared(before.joints[3], after.targetPoint)

\* the update took the leg out of the stuck state: it ends unstuck, or its
\* foot has been moved
leftStuck(before, after) == ~after.sticked \/ after.joints[3] # before.joints[3]

\* C19: in update() a sticked leg becomes unstuck if and only if the distance
\* from its foot to the target this update computed exceeds
\* maxDifference*scale; a leg that is sticked when update() ends has its foot
\* within maxDifference*scale of that target.
C19_UnstuckIffBeyondMaxDifference ==
  [][LegsUpdateStep =>
       \A i \in 1..Len(legs) :
         /\ legs[i].sticked =>
              (leftStuck(legs[i], legs'[i])
                 <=> footToTargetSq(legs[i], legs'[i])
                       > Sq(legs[i].maxDifference * legs[i].scale))
         /\ legs'[i].sticked =>
              footToTargetSq(legs'[i], legs'[i])
                <= Sq(legs'[i].maxDifference * legs'[i].scale)]_vars

\* an update found a leg sticked and left it unstuck, its foot further than
\* maxDifference*scale from the target, while another leg stayed sticked
C19_Witness ==
  /\ bodyOp = "update"
  /\ \E i \in 1..Len(legs) :
       /\ legs[i].wasSticked
       /\ ~legs[i].sticked
       /\ footToTargetSq(legs[i], legs[i]) > Sq(legs[i].maxDifference * legs[i].scale)
  /\ \E i \in 1..Len(legs) :
       /\ legs[i].wasSticked
       /\ legs[i].sticked
       /\ legs[i].scale > 0

\* C20: in update() an unstuck leg returns to stuck exactly when the
\* remaining foot-to-target distance is at most the distance the shoulder
\* moved in this call times returnSpeed, and its foot is then on the target;
\* otherwise sticked stays false.
C20_RestickIffWithinAvailableDistance ==
  [][LegsUpdateStep =>
       \A i \in 1..Len(legs) :
         ~legs[i].sticked =>
           /\ legs'[i].sticked
                <=> 100 * footToTargetSq(legs[i], legs'[i])
                      <= Sq(legs[i].returnSpeed)
                           * distanceSquared(legs[i].joints[1], legs'[i].joints[1])
           /\ legs'[i].sticked => legs'[i].joints[3] = legs'[i].targetPoint]_vars

\* an update found a leg unstuck and left it sticked with its foot on the
\* target
C20_Witness ==
  /\ bodyOp = "update"
  /\ \E i \in 1..Len(legs) :
       /\ ~legs[i].wasSticked
       /\ legs[i].sticked
       /\ legs[i].joints[3] = legs[i].targetPoint
       /\ legs[i].joints[1] # legs[i].targetPoint

\* leg.update() found the leg unstuck, or unstuck it, and did not snap the
\* foot onto the target
FootAdvanced == bodyOp = "leg update" /\ ~legs[1].sticked

\* (length1 + length2) * scale of the leg
segmentLengthSum == (legs[1].lengthes[1] + legs[1].lengthes[2]) * legs[1].scale

\* 100 times the distance from the foot the call found to the call's target
distToTarget100 == sqrt100(footToTargetSq(bodyArg, legs[1]))

\* the point at ratio hundredths of the way from the foot the call found to
\* the target
footToward(ratio) ==
  Vector2D(bodyArg.joints[3].x
             + RoundDiv(ratio * (legs[1].targetPoint.x - bodyArg.joints[3].x), 100),
           bodyArg.joints[3].y
             + RoundDiv(ratio * (legs[1].targetPoint.y - bodyArg.joints[3].y), 100))

\* the foot after an advance of distTraveled * returnSpeed: that part of the
\* way, in hundredths
footCrawled ==
  footToward((10 * legs[1].returnSpeed
                * sqrt100(distanceSquared(bodyArg.joints[1], legs[1].joints[1])))
               \div distToTarget100)

\* the foot after an advance of distToTarget - segmentLengthSum
footWhipped == footToward(100 - (10000 * segmentLengthSum) \div distToTarget100)

\* the foot is segmentLengthSum away from the target, to the pixel the
\* hundredths of the ratio allow
footAtReach ==
  /\ distanceSquared(legs[1].joints[3], legs[1].targetPoint) >= Sq(segmentLengthSum - 2)
  /\ distanceSquared(legs[1].joints[3], legs[1].targetPoint) <= Sq(segmentLengthSum + 2)

\* C21 as stated: an unstuck leg that does not snap moves its foot toward the
\* target by distTraveled*returnSpeed, unless the foot-to-target distance
\* exceeds 1.5 * (length1+length2) * scale: then it moves by distToTarget -
\* (length1+length2)*scale and ends that far from the target.
C21_WhipsBeyondOneAndAHalf ==
  FootAdvanced =>
    IF 4 * footToTargetSq(bodyArg, legs[1]) > 9 * Sq(segmentLengthSum)
      THEN legs[1].joints[3] = footWhipped /\ footAtReach
      ELSE legs[1].joints[3] = footCrawled

\* C21: the same with the second case from 1.5 * (length1+length2) * scale
\* on, that distance included.
C21_WhipsFromOneAndAHalf ==
  FootAdvanced =>
    IF 4 * footToTargetSq(bodyArg, legs[1]) >= 9 * Sq(segmentLengthSum)
      THEN legs[1].joints[3] = footWhipped /\ footAtReach
      ELSE legs[1].joints[3] = footCrawled

\* a foot found exactly 1.5 * (length1+length2) * scale from the target and
\* put at reach, another advance being what crawling gives
C21_Witness ==
  /\ FootAdvanced
  /\ 4 * footToTargetSq(bodyArg, legs[1]) = 9 * Sq(segmentLengthSum)
  /\ legs[1].joints[3] = footWhipped
  /\ legs[1].joints[3] # footCrawled
  /\ footAtReach

\* a foot that crawled: nearer than 1.5 * (length1+length2) * scale, moved
\* by distTraveled * returnSpeed > 0
C21_Crawled ==
  /\ FootAdvanced
  /\ 4 * footToTargetSq(bodyArg, legs[1]) < 9 * Sq(segmentLengthSum)
  /\ legs[1].joints[3] = footCrawled
  /\ legs[1].joints[3] # bodyArg.joints[3]

\* a foot that whipped from further than 1.5 * (length1+length2) * scale
C21_Whipped ==
  /\ FootAdvanced
  /\ 4 * footToTargetSq(bodyArg, legs[1]) > 9 * Sq(segmentLengthSum)
  /\ legs[1].joints[3] = footWhipped
  /\ legs[1].joints[3] # footCrawled

\* the flock as the boid at k finds it during the tick of this step: the
\* boids before it integrated, itself wrapped by edges(), the boids after it
\* as the tick found them
duringTick(k) ==
  [j \in 1..Len(flock) |->
     IF j < k THEN flock'[j]
     ELSE IF j = k THEN [flock[k] EXCEPT !.position = flock'[k].afterEdges]
     ELSE flock[j]]

\* alignmentImpact*align + cohesionImpact*cohesion + avoidanceImpact*separate
\* for the boid at k of fl
steeringSum(fl, k) ==
  vAdd(vAdd(vScale(align(fl, k, SimParams), SimParams.alignmentImpact),
            vScale(cohesion(fl, k, SimParams), SimParams.cohesionImpact)),
       vScale(separate(fl, k, SimParams), SimParams.avoidanceImpact))

\* the steering sum of this tick plus one point force per ripple of the
\* snapshot, added to nothing else
forcesOfThisTick(k) ==
  applyForces([duringTick(k)[k] EXCEPT !.acceleration = steeringSum(duringTick(k), k)],
              getPoints(points), SimParams).acceleration

\* a ripple of the snapshot lies within mouseForceRadius of the position
rippleInRange(position) ==
  \E i \in 1..Len(points) :
    /\ ~hasNaN(position)
    /\ magnitudeSquared(vSub(position, FVector(points[i].pos[1], points[i].pos[2])))
         <= Sq(SimParams.mouseForceRadius)

\* no other boid within perceptionRadius and no ripple in range
isolated(k) ==
  /\ perceived(duringTick(k), k, SimParams) = {}
  /\ ~rippleInRange(flock'[k].afterEdges)

\* C22: the acceleration with which a tick integrates a boid is the steering
\* sum of this tick plus one point force per ripple of the snapshot, a
\* number; a boid with no boid within perceptionRadius and no ripple in
\* range has zero acceleration.
C22_NoForceCarriedOver ==
  [][SimulationTick =>
       \A k \in 1..Len(flock) :
         /\ ~hasNaN(flock'[k].acceleration)
         /\ flock'[k].acceleration = forcesOfThisTick(k)
         /\ isolated(k) => flock'[k].acceleration = FVector(0, 0)]_vars

\* C22 for the boids whose position is a number when the forces are computed
C22_HoldsOnNumbers ==
  [][SimulationTick =>
       \A k \in 1..Len(flock) :
         ~hasNaN(flock'[k].afterEdges) =>
           /\ flock'[k].acceleration = forcesOfThisTick(k)
           /\ isolated(k) => flock'[k].acceleration = FVector(0, 0)]_vars

\* no tick finds an isolated boid that still holds the acceleration of the
\* tick before: refuted, the ticks of the model do
C22_IsolatedAfterForce ==
  [][(SimulationTick /\ \E k \in 1..Len(flock) :
        /\ isolated(k)
        /\ ~hasNaN(flock'[k].afterEdges)
        /\ flock[k].acceleration # FVector(0, 0))
       => FALSE]_vars

\* a tick with deltaTime # 0 made in this step: Boid.update integrates
IntegratingTick == SimulationTick /\ simArg' # 0

\* the magnitude of v is at most max, to the rounding of a velocity held in
\* whole pixels per tick
withinMagnitude(v, max) == ~hasNaN(v) /\ magnitudeSquared(v) <= Sq(max + 1)

\* C23: after Boid.update(dt, params) with dt # 0 the velocity magnitude is
\* at most params.maxVelocity, and the position is the position the call
\* found plus dt times the velocity the call found.
C23_VelocityClampedPositionAdvanced ==
  [][IntegratingTick =>
       \A k \in 1..Len(flock) :
         /\ withinMagnitude(flock'[k].velocity, SimParams.maxVelocity)
         /\ flock'[k].position
              = vAdd(flock'[k].afterEdges, vScale(flock[k].velocity, simArg'))]_vars

\* C23 for the boids whose position is a number when update is called
C23_HoldsOnNumbers ==
  [][IntegratingTick =>
       \A k \in 1..Len(flock) :
         ~hasNaN(flock'[k].afterEdges) =>
           /\ withinMagnitude(flock'[k].velocity, SimParams.maxVelocity)
           /\ flock'[k].velocity
                = clampMag(vAdd(flock[k].velocity, flock'[k].acceleration),
                           SimParams.maxVelocity)
           /\ flock'[k].position
                = vAdd(flock'[k].afterEdges, vScale(flock[k].velocity, simArg'))]_vars

\* no tick cuts a velocity down to maxVelocity: refuted, the ticks of the
\* model do clamp
C23_NeverClamped ==
  [][IntegratingTick =>
       \A k \in 1..Len(flock) :
         hasNaN(flock'[k].acceleration)
           \/ flock'[k].velocity = vAdd(flock[k].velocity, flock'[k].acceleration)]_vars

\* the legs after one more Lizard.update at the position of the last one
legsUpdatedAgain == Animal_update(body, legs, bodyArg.pos)[2]

\* C24: calling Lizard.update(p) twice in a row leaves every leg's sticked
\* flag, foot, knee, shoulder and targetPoint as a single Lizard.update(p)
\* leaves them.
C24_SecondUpdateChangesNoLeg ==
  (bodyOp = "update" /\ Len(legs) > 0) =>
    \A i \in 1..Len(legs) :
      /\ legsUpdatedAgain[i].sticked = legs[i].sticked
      /\ legsUpdatedAgain[i].joints = legs[i].joints
      /\ legsUpdatedAgain[i].targetPoint = legs[i].targetPoint

\* the second call leaves the whole chain as it is and still moves the
\* target of a leg: the first call computed it from the shoulder of the
\* update before
C24_SecondUpdateMovesTarget ==
  /\ bodyOp = "update" /\ Len(legs) > 0
  /\ bodyArg.scale = Given(1)
  /\ Animal_update(body, legs, bodyArg.pos)[1] = body
  /\ \E i \in 1..Len(legs) : legsUpdatedAgain[i].targetPoint # legs[i].targetPoint

\* the angle of the segment from link i - 1 to link i as the chain now lies
segmentAngle(i) ==
  angle(sub(body.chainLinks[i].pos, body.chainLinks[i - 1].pos))

\* C25: after BodyBase.update every link from the third on stores as its
\* directionAngle the angle of the vector from the previous link to its own
\* resolved position, also when the angle constraint moved it.
C25_DirectionAngleOfResolvedPosition ==
  bodyOp = "update" =>
    \A i \in 3..Len(body.chainLinks) :
      body.chainLinks[i].directionAngle = segmentAngle(i)

\* link i lies where the update found it, seen from the previous link: the
\* angle constraint did not move it
C25_Unclamped(i) ==
  wrapAngleDiff(segmentAngle(i) - body.chainLinks[i].directionAngle) = 0

\* what the code keeps: the stored angle is the angle the link had before
\* the clamp, and the segment is that angle clamped against the previous
\* segment
C25_DirectionAngleBeforeClamp ==
  (bodyOp = "update" /\ body.scale > 0) =>
    \A i \in 3..Len(body.chainLinks) :
      LET anchorAngle == angle(sub(body.chainLinks[i - 2].pos, body.chainLinks[i - 1].pos))
          stored == wrapAngleDiff(body.chainLinks[i].directionAngle - anchorAngle)
          resolved == wrapAngleDiff(segmentAngle(i) - anchorAngle)
      IN  resolved = clampAngleDiff(stored, body.maxAngle)

\* an update has clamped a link of an unscaled body: its stored angle is not
\* the angle of its segment
C25_Clamped ==
  /\ bodyOp = "update" /\ body.scale = 1
  /\ \E i \in 3..Len(body.chainLinks) : ~C25_Unclamped(i)

\* C26: Simulation.update advances the boids one at a time in flock order,
\* in place: the forces of the boid at k are computed from the boids before
\* it as this tick has already integrated them and from the boids after it
\* as the tick found them.
C26_ForcesSeeEarlierBoidsIntegrated ==
  [][SimulationTick =>
       \A k \in 1..Len(flock) :
         /\ flock'[k].acceleration = forcesOfThisTick(k)
         /\ flock'[k].velocity
              = IF simArg' = 0 THEN flock[k].velocity
                ELSE clampMag(vAdd(flock[k].velocity, flock'[k].acceleration),
                              SimParams.maxVelocity)
         /\ flock'[k].position
              = vAdd(flock'[k].afterEdges, vScale(flock[k].velocity, simArg'))]_vars

\* the boid as the integrating tick just made found it after edges()
beforeIntegration(boid) ==
  [boid EXCEPT !.position = boid.afterEdges,
               !.velocity = vDiv(vSub(boid.position, boid.afterEdges), simArg)]

\* the forces on the second boid of fl, under the ripples its tick applied
forcesOnSecond(fl) ==
  applyForces([fl[2] EXCEPT !.acceleration = steeringSum(fl, 2),
                            !.ripplesSeen = << >>],
              flock[2].ripplesSeen, SimParams).acceleration

\* the order matters: a tick has integrated the second boid with the forces
\* the moved first boid exerts, which are not the forces the first boid
\* would have exerted from where the tick found it
C26_Witness ==
  /\ simOp = "update" /\ simArg # 0
  /\ Len(flock) = 2
  /\ ~hasNaN(flock[1].position) /\ ~hasNaN(flock[2].position)
  /\ flock[2].acceleration
       = forcesOnSecond(<<flock[1], beforeIntegration(flock[2])>>)
  /\ flock[2].acceleration
       # forcesOnSecond(<<beforeIntegration(flock[1]), beforeIntegration(flock[2])>>)

\* a tick with deltaTime = 0 made in this step
IdleTick == SimulationTick /\ simArg' = 0

\* C27: Boid.update with deltaTime = 0 changes nothing: the boid keeps the
\* position edges() left, the velocity it had, the acceleration flock() and
\* applyForce just computed, however large, and its animal is not updated.
C27_ZeroDeltaTimeChangesNothing ==
  [][IdleTick =>
       \A k \in 1..Len(flock) :
         /\ flock'[k].position = flock'[k].afterEdges
         /\ flock'[k].velocity = flock[k].velocity
         /\ flock'[k].acceleration = forcesOfThisTick(k)
         /\ flock'[k].animal
              = headFollows([flock[k] EXCEPT !.position = flock'[k].afterEdges]).animal
         /\ flock'[k].animal.updatesByBoid = flock[k].animal.updatesByBoid]_vars

\* a tick with deltaTime = 0 has left a moving boid with a non-zero
\* acceleration where it was
C27_Witness ==
  /\ simOp = "update" /\ simArg = 0
  /\ \E k \in 1..Len(flock) :
       /\ flock[k].acceleration # FVector(0, 0)
       /\ ~hasNaN(flock[k].acceleration)
       /\ flock[k].velocity # FVector(0, 0)
       /\ flock[k].position = flock[k].afterEdges
       /\ flock[k].animal.updatesByBoid > 0

\* chainLinks[0].pos of the boid's animal is the boid's position object, and
\* where the position is a number the head link is there
headOnPosition(boid) ==
  /\ boid.animal.headIsPosition
  /\ \/ hasNaN(boid.position)
     \/ boid.animal.body.chainLinks[1].pos
          = Vector2D(boid.position.x.val, boid.position.y.val)

C28_NotAfterIdleFirstTick ==
  /\ simOp = "update" /\ simArg = 0
  /\ \E k \in 1..Len(flock) :
       /\ flock[k].animal.updatesByBoid = 0
       /\ ~flock[k].animal.headIsPosition
       /\ flock[k].animal.body.chainLinks[1].pos = Vector2D(0, 0)
       /\ flock[k].position # FVector(0, 0)

\* a call of Simulation.addPoint resp. setMousePos made in this step
AddPointStep == simOp' = "addPoint" /\ simOps' = simOps + 1
SetMousePosStep == simOp' = "setMousePos" /\ simOps' = simOps + 1

allInitialised(fl, n) ==
  \A k \in 1..Len(fl) : fl[k].animal.graphicsInits = n

\* C30: whatever the order of changeCreaturesAmount / replaceAnimalType calls
\* and the completion of initPixi, no creature of the flock has its graphics
\* initialised more than once, and once initPixi has completed every
\* creature of the flock has them initialised exactly once.
C30_GraphicsInitialisedOnce ==
  /\ \A k \in 1..Len(flock) : flock[k].animal.graphicsInits <= 1
  /\ pixiInitialised => allInitialised(flock, 1)

\* what the code keeps: once initPixi has completed with every creature
\* initialised once, every later call leaves every creature initialised once
C30_OnceAfterCompletion ==
  [][(pixiInitialised /\ allInitialised(flock, 1)) => allInitialised(flock', 1)]_vars

\* and it completes so when the flock holds only creatures the constructor
\* made: none added by updateBoidAmount, which initialises its own
C30_OnceWhenNothingAddedBefore ==
  [][(~pixiInitialised /\ pixiInitialised' /\ allInitialised(flock, 0))
       => allInitialised(flock', 1)]_vars

\* initPixi has completed after a call had added a creature: that creature
\* has its graphics built twice
C30_InitialisedTwice ==
  /\ pixiInitialised
  /\ \E k \in 1..Len(flock) : flock[k].animal.graphicsInits = 2

=============================================================================
